---- MODULE Spec2Model ----
(***************************************************************************)
(* AutoML Analytics Hub: the ml_models row, the serverless handlers that   *)
(* write it (process-ml-model in its three versions, process-forecast-     *)
(* model, process-recommendation-model) and the MLStudio client that       *)
(* invokes process-ml-model and polls the row; upload-dataset and the      *)
(* pages that create models; and the computations of the handlers: KMeans, *)
(* SimpleForecast with its metrics, SimpleRecommender, runClassification,  *)
(* runRegression, the evaluation of the recommendation handler; generate-  *)
(* chart-data; and the selections of the MLStudio page.                    *)
(***************************************************************************)
EXTENDS Integers, Sequences, FiniteSets, TLC

\* ------------------------------------------------------------------ bounds
\* Number of handler invocations that may be in flight against the row.
NumInv == 2
\* Status polls of the client that may be awaiting their response at once.
MaxInFlight == 2

Inv == 1..NumInv

\* ------------------------------------------------------- program constants
PollIntervalMs == 2000
ProgressIntervalMs == 1000
TimeoutMs == 120000

\* ------------------------------------------------------------ the database
Owner == "u1"
Creds == {"u1", "u2", "none"}

\* CHECK (status IN (...)) of public.ml_models
StatusValues == {"created", "training", "completed", "error", "deployed"}

\* No row with id m1 yet.
NoRow ==
  [user_id |-> "", status |-> "absent", training_progress |-> 0,
   results |-> 0, metrics |-> 0]

\* The row a freshly inserted model has: status 'created', progress DEFAULT 0,
\* results and metrics NULL (0 stands for NULL, i > 0 for invocation i's payload).
NewRow ==
  [user_id |-> Owner, status |-> "created", training_progress |-> 0,
   results |-> 0, metrics |-> 0]

\* Row level security: "Users can update their own models"; the service role
\* key bypasses it.
RlsAllows(r, role, uid) == role = "service" \/ uid = r.user_id

\* Table constraints evaluated on the row an UPDATE would produce.
CheckOk(r) == r.status \in StatusValues

\* A merge that never lowers training_progress.
MergeKeepMax(r, payload) ==
  [f \in DOMAIN r |->
     IF f \notin DOMAIN payload THEN r[f]
     ELSE IF f = "training_progress" /\ payload[f] < r[f] THEN r[f]
     ELSE payload[f]]

\* The row an UPDATE ... SET payload produces: the named columns take the
\* values sent, the others keep theirs.
Merge(r, payload) ==
  [f \in DOMAIN r |-> IF f \in DOMAIN payload THEN payload[f] ELSE r[f]]

\* supabase.from('ml_models').update(payload).eq('id', id): TRUE when the
\* statement changes the row; a rejected statement returns an error object
\* and leaves the row as it was.
UpdateApplies(r, payload, role, uid) ==
  /\ r.status # "absent"
  /\ RlsAllows(r, role, uid)
  /\ CheckOk(Merge(r, payload))

\* ------------------------------------------------------------ the handlers
Fns == {"ml", "forecast", "recommendation"}
\* The three versions of process-ml-model differ in their catch block.
MlVariants == {"json", "clone", "native"}

\* Request bodies: the id of the row, an id no row has, a body without the id
\* field, and a body that is not JSON.
Bodies == {"m1", "mX", "missing", "malformed"}

\* Key the handler creates its client with.
RoleOf(f) == IF f = "ml" THEN "anon" ELSE "service"

\* Status written with the first checkpoint, and in the catch block.
StartStatus(f) == IF f = "ml" THEN "training" ELSE "processing"
FailStatus(f) == IF f = "ml" THEN "error" ELSE "failed"

\* Checkpoints with the last two progress updates exchanged.
CheckpointsSwapped(f) ==
  IF f = "ml" THEN <<10, 30, 90, 70, 100>> ELSE <<10, 30, 50, 90, 70, 100>>

\* The training_progress values of a run's update statements, in program order.
Checkpoints(f) ==
  IF f = "ml" THEN <<10, 30, 70, 90, 100>> ELSE <<10, 30, 50, 70, 90, 100>>

VARIABLES
  row,        \* the ml_models row with id m1
  mlVariant,  \* the deployed version of process-ml-model
  pc,         \* pc[i]: position of invocation i in its handler
  fn,         \* fn[i]: the function invocation i runs
  cred,       \* cred[i]: user of the Authorization header ("none": no valid user)
  body,       \* body[i]: what the request body holds
  bodyUsed,   \* bodyUsed[i]: the request body stream has been consumed
  log,        \* log[i]: the update statements invocation i has sent, in order
  resp,       \* resp[i]: HTTP status of the response (0: none yet)
  threw,      \* threw[i]: an exception reached the handler's catch block
  lastWriter, \* invocation whose update changed the row last (0: none)
  lastFinal,  \* invocation whose final update changed the row last (0: none)
  insights    \* insights[i]: the insights text of invocation i ("-": not yet)

hvars ==
  <<row, mlVariant, pc, fn, cred, body, bodyUsed, log, resp, threw, lastWriter, lastFinal,
    insights>>

HInit ==
  /\ mlVariant \in MlVariants
  /\ pc = [i \in Inv |-> "idle"]
  /\ fn = [i \in Inv |-> "ml"]
  /\ cred = [i \in Inv |-> "none"]
  /\ body = [i \in Inv |-> "missing"]
  /\ bodyUsed = [i \in Inv |-> FALSE]
  /\ log = [i \in Inv |-> <<>>]
  /\ resp = [i \in Inv |-> 0]
  /\ threw = [i \in Inv |-> FALSE]
  /\ lastWriter = 0
  /\ lastFinal = 0
  /\ insights = [i \in Inv |-> "-"]

\* What a log entry records of an update statement.
Entry(payload, ok) ==
  [status   |-> IF "status" \in DOMAIN payload THEN payload.status ELSE "-",
   progress |-> payload.training_progress,
   final    |-> "results" \in DOMAIN payload,
   metrics  |-> "metrics" \in DOMAIN payload,
   ok       |-> ok]

\* Invocation i sends one update statement for the row; dbOk is FALSE when the
\* database answers with an error for reasons outside the statement.
Send(i, payload, dbOk) ==
  LET ok == dbOk /\ UpdateApplies(row, payload, RoleOf(fn[i]), cred[i]) IN
  /\ row' = IF ok THEN Merge(row, payload) ELSE row
  /\ log' = [log EXCEPT ![i] = Append(@, Entry(payload, ok))]
  /\ lastWriter' = IF ok THEN i ELSE lastWriter
  /\ lastFinal' = IF ok /\ "results" \in DOMAIN payload THEN i ELSE lastFinal

NoSend == UNCHANGED <<row, log, lastWriter, lastFinal>>

Respond(i, code) ==
  /\ resp' = [resp EXCEPT ![i] = code]
  /\ pc' = [pc EXCEPT ![i] = "done"]
  /\ UNCHANGED threw

Throw(i) ==
  /\ threw' = [threw EXCEPT ![i] = TRUE]
  /\ pc' = [pc EXCEPT ![i] = "catch"]
  /\ UNCHANGED resp

Goto(i, l) ==
  /\ pc' = [pc EXCEPT ![i] = l]
  /\ UNCHANGED <<resp, threw>>

\* The entry point of function f: process-ml-model authenticates first, the
\* other two read the body first.
EntryPoint(f) == IF f = "ml" THEN "auth" ELSE "body"

\* An HTTP POST with credentials c and body b reaches function f.
Request(i, f, c, b) ==
  /\ pc[i] = "idle"
  /\ fn' = [fn EXCEPT ![i] = f]
  /\ cred' = [cred EXCEPT ![i] = c]
  /\ body' = [body EXCEPT ![i] = b]
  /\ Goto(i, EntryPoint(f))
  /\ NoSend
  /\ UNCHANGED <<mlVariant, bodyUsed, insights>>

\* process-ml-model: supabaseClient.auth.getUser(), 401 without a user.
HAuth(i) ==
  /\ pc[i] = "auth"
  /\ IF cred[i] = "none" THEN Respond(i, 401) ELSE Goto(i, "body")
  /\ NoSend
  /\ UNCHANGED <<mlVariant, fn, cred, body, bodyUsed, insights>>

\* await req.json(): consumes the body whatever it holds; process-ml-model
\* answers 400 when the id is missing.
HParseBody(i) ==
  /\ pc[i] = "body"
  /\ bodyUsed' = [bodyUsed EXCEPT ![i] = TRUE]
  /\ CASE body[i] = "malformed" -> Throw(i)
       [] body[i] = "missing" /\ fn[i] = "ml" -> Respond(i, 400)
       [] OTHER -> Goto(i, "fetch")
  /\ NoSend
  /\ UNCHANGED <<mlVariant, fn, cred, body, insights>>

\* A lookup that also refuses a model another invocation is training.
ModelFoundUnlessBusy(i) ==
  /\ body[i] = "m1"
  /\ row.status \notin {"absent", "training", "completed"}
  /\ fn[i] = "ml" => cred[i] = row.user_id

\* A lookup on the id alone, whoever owns the row.
ModelFoundAnyOwner(i) ==
  /\ body[i] = "m1"
  /\ row.status # "absent"

\* The select of the model row: process-ml-model filters on id and user_id
\* with the caller's key, the other two on id alone with the service key.
ModelFound(i) ==
  /\ body[i] = "m1"
  /\ row.status # "absent"
  /\ fn[i] = "ml" => cred[i] = row.user_id

HFetchModel(i) ==
  /\ pc[i] = "fetch"
  /\ IF ModelFound(i) THEN Goto(i, "w1")
     ELSE IF fn[i] = "ml" THEN Respond(i, 404)
     ELSE Throw(i)
  /\ NoSend
  /\ UNCHANGED <<mlVariant, fn, cred, body, bodyUsed, insights>>

\* update({ status: 'training' | 'processing', training_progress: 10 })
HWriteStart(i) ==
  /\ pc[i] = "w1"
  /\ Send(i, [status |-> StartStatus(fn[i]),
              training_progress |-> Checkpoints(fn[i])[1]], TRUE)
  /\ Goto(i, "w2")
  /\ UNCHANGED <<mlVariant, fn, cred, body, bodyUsed, insights>>

\* The step in front of progress update k that can throw: the dataset
\* download (forecast, recommendation, before 30), the Gemini call
\* (process-ml-model, before 70), the data check "at least 2 points" / "at
\* least 10 ratings" (forecast, recommendation, before 70).
CanThrowBefore(f, k) ==
  IF f = "ml" THEN k = 3 ELSE k \in {2, 4}

\* Progress update k of the run, 1 < k < Len(Checkpoints).
HWriteProgress(i) ==
  /\ \E k \in 2..(Len(Checkpoints(fn[i])) - 1) :
       /\ pc[i] = "w" \o ToString(k)
       /\ \E stepOk \in BOOLEAN :
            IF stepOk
              THEN /\ Send(i, [training_progress |-> Checkpoints(fn[i])[k]], TRUE)
                   /\ Goto(i, IF k + 1 = Len(Checkpoints(fn[i]))
                                THEN "final" ELSE "w" \o ToString(k + 1))
              ELSE /\ CanThrowBefore(fn[i], k)
                   /\ Throw(i)
                   /\ NoSend
  /\ UNCHANGED <<mlVariant, fn, cred, body, bodyUsed, insights>>

\* The final update.  process-ml-model reads the statement's error and throws
\* on it; forecast and recommendation do not read it and answer success.
ChecksFinalError(f) == f = "ml"

\* results: aiResults, metrics: aiResults.metrics, where aiResults is what the
\* language model answered (the fallback object when that is no JSON): an
\* answer without a metrics key leaves the metrics column out of the update.
\* The native version and the two other functions compute their metrics.
MetricsMayBeMissing(i) == fn[i] = "ml" /\ mlVariant # "native"

\* A final update that stores the results without completing the row.
FinalPayloadNoStatus(i, withMetrics) ==
  [training_progress |-> Checkpoints(fn[i])[Len(Checkpoints(fn[i]))],
   results |-> i]

FinalPayload(i, withMetrics) ==
  LET p == [status |-> "completed",
            training_progress |-> Checkpoints(fn[i])[Len(Checkpoints(fn[i]))],
            results |-> i]
  IN IF withMetrics THEN p @@ [metrics |-> i] ELSE p

\* What the request for insights to the language model API can come to:
\* an OK answer with the text, a non-OK answer, no answer (fetch rejects), an
\* OK answer whose body is not the JSON expected.
LlmOutcomes == {"ok", "nonok", "failed", "malformed"}

\* An insights block without its try / catch: what it throws escapes.
InsightsOfUncaught(outcome) ==
  CASE outcome = "ok" -> "generated"
    [] outcome = "nonok" -> ""
    [] OTHER -> "thrown"

\* let insights = ''; try { ... } catch { insights = 'Unable to generate AI
\* insights at this time.' }: a non-OK answer leaves the empty string, a
\* rejected fetch and a body that cannot be read end in the catch block.
InsightsOf(outcome) ==
  CASE outcome = "ok" -> "generated"
    [] outcome = "nonok" -> ""
    [] OTHER -> "unable"

\* process-forecast-model and process-recommendation-model ask for insights
\* between the update to 90 and the final update; process-ml-model has asked
\* the language model before its update to 70.
AsksInsights(f) == f # "ml"

HFinal(i) ==
  /\ pc[i] = "final"
  /\ \E dbOk \in BOOLEAN, withMetrics \in BOOLEAN, outcome \in LlmOutcomes :
       /\ (~withMetrics => MetricsMayBeMissing(i))
       /\ (~AsksInsights(fn[i]) => outcome = "ok")
       /\ insights' = [insights EXCEPT ![i] =
            IF AsksInsights(fn[i]) THEN InsightsOf(outcome) ELSE @]
       /\ IF AsksInsights(fn[i]) /\ InsightsOf(outcome) = "thrown"
            THEN Throw(i) /\ NoSend
            ELSE /\ Send(i, FinalPayload(i, withMetrics), dbOk)
                 /\ IF ~dbOk /\ ChecksFinalError(fn[i])
                      THEN Throw(i) ELSE Respond(i, 200)
  /\ UNCHANGED <<mlVariant, fn, cred, body, bodyUsed>>

\* Whether the catch block gets a model id to mark as failed: await req.json()
\* (json version, forecast, recommendation) and req.clone() (clone version)
\* both throw once the body has been consumed; the native version of
\* process-ml-model does not try.
CatchReadsBody(i) ==
  /\ ~bodyUsed[i]
  /\ body[i] \in {"m1", "mX"}
  /\ fn[i] = "ml" => mlVariant \in {"json", "clone"}

HCatch(i) ==
  /\ pc[i] = "catch"
  /\ IF CatchReadsBody(i)
       THEN Send(i, [status |-> FailStatus(fn[i]), training_progress |-> 0],
                 body[i] = "m1")
       ELSE NoSend
  /\ Respond(i, 500)
  /\ UNCHANGED <<mlVariant, fn, cred, body, bodyUsed, insights>>

HandlerStep(i) ==
  \/ HAuth(i) \/ HParseBody(i) \/ HFetchModel(i)
  \/ HWriteStart(i) \/ HWriteProgress(i) \/ HFinal(i) \/ HCatch(i)


\* ------------------------------------------------------ the MLStudio client
\* The invocation the client's supabase.functions.invoke starts.
ClientInv == CHOOSE i \in Inv : \A j \in Inv : i <= j

\* Timers run in units of the polling interval.
TimeoutTicks == TimeoutMs \div PollIntervalMs
ProgressCallsPerTick == PollIntervalMs \div ProgressIntervalMs

VARIABLES
  cpc,               \* position of handleStartTraining
  isTraining,        \* React state isTraining
  closureIsTraining, \* isTraining as captured by the running handleStartTraining
  trainingProgress,  \* React state trainingProgress
  progressActive,    \* the progressInterval timer is set
  intervalActive,    \* the checkCompletion timer is set
  timeoutPending,    \* the two-minute timer is set
  elapsed,           \* polling intervals since the timers were set
  inflight,          \* status reads sent and not yet answered
  seen,              \* status the last answered read returned ("": none)
  toast,             \* last toast shown
  model_results      \* the model_results rows inserted, each with the row the
                     \* poll had read

cvars ==
  <<cpc, isTraining, closureIsTraining, trainingProgress, progressActive,
    intervalActive, timeoutPending, elapsed, inflight, seen, toast, model_results>>

\* ---------------------------------------------- state of the other programs
\* upload-dataset, one entry per upload request.
VARIABLES
  upc,               \* position of the upload handler
  ucred,             \* credential of the upload request
  ufile,             \* what the request carries
  uresp,             \* HTTP status answered (0: none yet)
  stored,            \* the file of the request is in the datasets bucket
  dataset,           \* the datasets row the request inserted
  datasetTrail       \* every status that row has held, in order

uvars == <<upc, ucred, ufile, uresp, stored, dataset, datasetTrail>>

\* The page that creates a model and starts its processing.
VARIABLES
  wpc,               \* position of the create handler
  workflow,          \* which of the five workflows the page offers
  wdbUp,             \* the database answered the insert
  inserted,          \* problem_type of the ml_models row inserted ("": none)
  invoked,           \* the function the page invoked ("": none)
  wtoast             \* toast shown

wvars == <<wpc, workflow, wdbUp, inserted, invoked, wtoast>>

\* new KMeans(data, k)
VARIABLES
  kpc,               \* position in the constructor
  kdata,             \* data: the points
  kk,                \* k
  centroids,         \* this.centroids
  iter,              \* iter of the k-means loop
  assignments,       \* assignments of the latest iteration
  kstable,           \* the latest iteration assigned as the one before it
  clusters,          \* this.clusters
  distribution       \* cluster_distribution of runClustering

kvars ==
  <<kpc, kdata, kk, centroids, iter, assignments, kstable, clusters, distribution>>

\* SimpleForecast in the forecast handler
VARIABLES
  fpc,               \* position in the handler's forecast part
  values,            \* values: the series
  forecastHorizon,   \* forecastHorizon
  forecastResult,    \* forecastResult.forecast
  testForecast,      \* testForecast.forecast
  r2Score,           \* r2Score
  r2Native           \* the native calculateR2 of the same arrays

svars == <<fpc, values, forecastHorizon, forecastResult, testForecast, r2Score, r2Native>>

\* SimpleRecommender
VARIABLES
  rpc,               \* position: building the recommender, or recommended
  userItemMatrix,    \* this.userItemMatrix
  itemUserMatrix,    \* this.itemUserMatrix
  users,             \* this.users
  items,             \* this.items
  ratingsAdded,      \* addRating calls so far
  targetUser,        \* targetUser of getRecommendations
  topK,              \* topK of getRecommendations
  recommendations    \* what getRecommendations returned

rvars ==
  <<rpc, userItemMatrix, itemUserMatrix, users, items, ratingsAdded, targetUser,
    topK, recommendations>>

\* runClassification of the native process-ml-model
VARIABLES
  npc,               \* position in runClassification
  processedData,     \* processedData.data
  predictions,       \* predictions
  actualBinary,      \* actualBinary
  accuracy           \* metrics.accuracy

nvars == <<npc, processedData, predictions, actualBinary, accuracy>>

\* runRegression of the native process-ml-model
VARIABLES
  lpc,               \* position in runRegression
  regressionData,    \* processedData.data
  slope,             \* regression.slope
  intercept,         \* regression.intercept
  fitted             \* predictions

lvars == <<lpc, regressionData, slope, intercept, fitted>>

\* The evaluation in the recommendation handler
VARIABLES
  userRows,          \* per user, the items of that user's rows of validRatings
  sampled,           \* per evaluated user, the predictions of the evaluation
  validEvaluations,  \* validEvaluations
  precisionAtK,      \* metrics.precision_at_k
  recallAtK          \* metrics.recall_at_k

qvars == <<userRows, sampled, validEvaluations, precisionAtK, recallAtK>>

\* generate-chart-data
VARIABLES
  gpc,               \* position of the handler
  gvariant,          \* the deployed version of generate-chart-data
  chartType,         \* chartType of the request
  xKnown,            \* xColumn names a column of the parsed records
  yKnown,            \* yColumn names a column of the parsed records
  records,           \* records: the parsed rows, their x and y cells
  gi,                \* the record the loop is at
  labels,            \* labels, each with the row it was taken from
  chartValues,       \* values, each with the row it was taken from
  gresp              \* HTTP status answered (0: none yet)

gvars ==
  <<gpc, gvariant, chartType, xKnown, yKnown, records, gi, labels, chartValues, gresp>>

\* The selections of the MLStudio page and the row Start inserts
VARIABLES
  mpc,                 \* the page is offering its choices, or has started
  selectedDataset,     \* React state selectedDataset
  selectedProblem,     \* React state selectedProblem
  selectedProblemType, \* React state selectedProblemType
  studioModel          \* problem_type and problem_subtype of the row inserted

mvars == <<mpc, selectedDataset, selectedProblem, selectedProblemType, studioModel>>

\* The programs added to the development later.
evars == <<lvars, qvars, gvars, mvars>>

\* The computations, each run on its own.
fvars == <<kvars, svars, rvars, nvars, evars>>

others == <<uvars, wvars, fvars>>

vars == <<hvars, cvars, others>>

CInit ==
  /\ cpc = "idle"
  /\ isTraining = FALSE
  /\ closureIsTraining = FALSE
  /\ trainingProgress = 0
  /\ progressActive = FALSE
  /\ intervalActive = FALSE
  /\ timeoutPending = FALSE
  /\ elapsed = 0
  /\ inflight = 0
  /\ seen = ""
  /\ toast = "none"
  /\ model_results = <<>>

\* The Start button is rendered only while !isTraining && trainingProgress < 100.
StartButtonShown == ~isTraining /\ trainingProgress < 100

\* Click on Start: setIsTraining(true), setTrainingProgress(0), insert of the
\* ml_models row with status 'created'.
CClick ==
  /\ cpc = "idle"
  /\ StartButtonShown
  /\ closureIsTraining' = isTraining
  /\ isTraining' = TRUE
  /\ trainingProgress' = 0
  /\ row' = NewRow
  /\ cpc' = "invoke"
  /\ UNCHANGED <<mlVariant, pc, fn, cred, body, bodyUsed, log, resp, threw,
                 lastWriter, lastFinal, insights>>
  /\ UNCHANGED <<progressActive, intervalActive, timeoutPending, elapsed, inflight,
                 seen, toast, model_results>>
  /\ UNCHANGED others

\* supabase.functions.invoke('process-ml-model', { body: { modelId } })
CInvoke ==
  /\ cpc = "invoke"
  /\ Request(ClientInv, "ml", Owner, "m1")
  /\ cpc' = "awaiting"
  /\ UNCHANGED <<isTraining, closureIsTraining, trainingProgress, progressActive,
                 intervalActive, timeoutPending, elapsed, inflight, seen, toast,
                 model_results>>
  /\ UNCHANGED others

\* A client that goes on without the function's response.
InvokeSettledNoAwait == TRUE

\* await: handleStartTraining resumes when the function has responded.
InvokeSettled == pc[ClientInv] = "done"

\* processError: the function answered with a non-2xx status.
ProcessError == resp[ClientInv] >= 400

\* After the await: on processError the catch block, else the three timers.
CInvokeReturned ==
  /\ cpc = "awaiting"
  /\ InvokeSettled
  /\ IF ProcessError
       THEN /\ isTraining' = FALSE
            /\ trainingProgress' = 0
            /\ toast' = "error"
            /\ cpc' = "failed"
            /\ UNCHANGED <<progressActive, intervalActive, timeoutPending>>
       ELSE /\ progressActive' = TRUE
            /\ intervalActive' = TRUE
            /\ timeoutPending' = TRUE
            /\ cpc' = "polling"
            /\ UNCHANGED <<isTraining, trainingProgress, toast>>
  /\ UNCHANGED hvars
  /\ UNCHANGED <<closureIsTraining, elapsed, inflight, seen, model_results>>
  /\ UNCHANGED others

\* One callback of progressInterval: prev >= 95 ? (clearInterval, 95) : prev + 5.
RECURSIVE ProgressAfter(_, _)
ProgressAfter(p, n) ==
  IF n = 0 THEN p
  ELSE ProgressAfter(IF p >= 95 THEN 95 ELSE p + 5, n - 1)

\* One polling interval passes: progressInterval fires, then checkCompletion
\* fires and sends a status read.
CTick ==
  /\ cpc = "polling"
  /\ timeoutPending
  /\ elapsed < TimeoutTicks
  /\ intervalActive => inflight < MaxInFlight
  /\ elapsed' = elapsed + 1
  /\ IF progressActive
       THEN /\ trainingProgress' = ProgressAfter(trainingProgress, ProgressCallsPerTick)
            /\ progressActive' = (trainingProgress < 95)
       ELSE UNCHANGED <<trainingProgress, progressActive>>
  /\ inflight' = IF intervalActive THEN inflight + 1 ELSE inflight
  /\ UNCHANGED hvars
  /\ UNCHANGED <<cpc, isTraining, closureIsTraining, intervalActive, timeoutPending,
                 seen, toast, model_results>>
  /\ UNCHANGED others

\* Polling that stops on error alone.
StopsPollingOnErrorOnly(status) == status = "error"

\* The statuses on which checkCompletion clears both intervals.
StopsPolling(status) == status \in {"completed", "error"}

\* The empty JSON object.
EmptyObject == 0 - 1

\* A copy that passes NULL on.
OrEmptyIdentity(x) == x

\* updatedModel.metrics || {}: NULL becomes the empty object.
OrEmpty(x) == IF x = 0 THEN EmptyObject ELSE x

\* The row saved to the results history for the model row a poll has read
\* (read: that model row; the result of the insert is not looked at).
ResultsRow(read) ==
  [metrics |-> OrEmpty(read.metrics), results |-> OrEmpty(read.results),
   read |-> read]

\* A status read is answered.  netOk FALSE: the select failed, updatedModel is
\* undefined.  On completed the callback also inserts a model_results row.
CPollResponse ==
  /\ inflight > 0
  /\ inflight' = inflight - 1
  /\ \E netOk \in BOOLEAN :
       LET status == IF netOk THEN row.status ELSE "" IN
       /\ seen' = status
       /\ IF StopsPolling(status)
            THEN /\ intervalActive' = FALSE
                 /\ progressActive' = FALSE
                 /\ isTraining' = FALSE
            ELSE UNCHANGED <<intervalActive, progressActive, isTraining>>
       /\ CASE status = "completed" ->
                 /\ trainingProgress' = 100
                 /\ \E insOk \in BOOLEAN :
                      model_results' =
                        IF insOk THEN Append(model_results, ResultsRow(row))
                        ELSE model_results
                 /\ toast' = "success"
            [] status = "error" ->
                 /\ trainingProgress' = 0
                 /\ toast' = "error"
                 /\ UNCHANGED model_results
            [] OTHER -> UNCHANGED <<trainingProgress, toast, model_results>>
  /\ UNCHANGED hvars
  /\ UNCHANGED <<cpc, closureIsTraining, timeoutPending, elapsed>>
  /\ UNCHANGED others

\* The setTimeout callback, two minutes after the timers were set: clears both
\* intervals, and tests the isTraining its closure holds.
CTimeout ==
  /\ cpc = "polling"
  /\ timeoutPending
  /\ elapsed = TimeoutTicks
  /\ timeoutPending' = FALSE
  /\ intervalActive' = FALSE
  /\ progressActive' = FALSE
  /\ IF closureIsTraining
       THEN /\ trainingProgress' = 100
            /\ isTraining' = FALSE
            /\ toast' = "success"
       ELSE UNCHANGED <<trainingProgress, isTraining, toast>>
  /\ UNCHANGED hvars
  /\ UNCHANGED <<cpc, closureIsTraining, elapsed, inflight, seen, model_results>>
  /\ UNCHANGED others

\* ------------------------------------------------------------ upload-dataset
\* Upload requests that may be in progress at once.
NumUploads == 2
Uploads == 1..NumUploads

\* CHECK (status IN (...)) of public.datasets
DatasetStatusValues == {"uploaded", "processing", "processed", "error"}

\* What a request carries: no multipart body at all, a form without a file,
\* or a form with a file (its type only matters to the profile).
Files == {"notform", "nofile", "file"}

NoDataset == [status |-> "absent", user_id |-> "", storage_path |-> 0]

UInit ==
  /\ upc = [u \in Uploads |-> "idle"]
  /\ ucred = [u \in Uploads |-> "none"]
  /\ ufile = [u \in Uploads |-> "nofile"]
  /\ uresp = [u \in Uploads |-> 0]
  /\ stored = [u \in Uploads |-> FALSE]
  /\ dataset = [u \in Uploads |-> NoDataset]
  /\ datasetTrail = [u \in Uploads |-> <<>>]

URespond(u, code) ==
  /\ uresp' = [uresp EXCEPT ![u] = code]
  /\ upc' = [upc EXCEPT ![u] = "done"]

UploadRequest(u, c, f) ==
  /\ upc[u] = "idle"
  /\ upc' = [upc EXCEPT ![u] = "auth"]
  /\ ucred' = [ucred EXCEPT ![u] = c]
  /\ ufile' = [ufile EXCEPT ![u] = f]
  /\ UNCHANGED <<uresp, stored, dataset, datasetTrail>>

\* supabaseClient.auth.getUser(): 401 without a valid user.
UAuth(u) ==
  /\ upc[u] = "auth"
  /\ IF ucred[u] = "none"
       THEN URespond(u, 401)
       ELSE upc' = [upc EXCEPT ![u] = "form"] /\ UNCHANGED uresp
  /\ UNCHANGED <<ucred, ufile, stored, dataset, datasetTrail>>

\* req.formData() throws on a body that is no form (outer catch: 500);
\* formData.get('file') missing: 400.
UForm(u) ==
  /\ upc[u] = "form"
  /\ CASE ufile[u] = "notform" -> URespond(u, 500)
       [] ufile[u] = "nofile" -> URespond(u, 400)
       [] OTHER -> upc' = [upc EXCEPT ![u] = "store"] /\ UNCHANGED uresp
  /\ UNCHANGED <<ucred, ufile, stored, dataset, datasetTrail>>

\* storage.from('datasets').upload(fileName, file): 500 on uploadError.
UStore(u) ==
  /\ upc[u] = "store"
  /\ \E ok \in BOOLEAN :
       IF ok
         THEN /\ stored' = [stored EXCEPT ![u] = TRUE]
              /\ upc' = [upc EXCEPT ![u] = "insert"]
              /\ UNCHANGED uresp
         ELSE URespond(u, 500) /\ UNCHANGED stored
  /\ UNCHANGED <<ucred, ufile, dataset, datasetTrail>>

\* The status the handler's insert names.
InsertStatusDefault == "uploaded"

InsertStatus == "processed"

\* Profiling (its errors are swallowed), then the insert of the datasets row;
\* on dbError the stored file is removed (the result of remove is not looked
\* at) and the answer is 500.
UInsert(u) ==
  /\ upc[u] = "insert"
  /\ \E dbOk \in BOOLEAN, rmOk \in BOOLEAN :
       IF dbOk /\ InsertStatus \in DatasetStatusValues
         THEN /\ dataset' = [dataset EXCEPT ![u] =
                   [status |-> InsertStatus, user_id |-> ucred[u], storage_path |-> u]]
              /\ datasetTrail' = [datasetTrail EXCEPT ![u] = Append(@, InsertStatus)]
              /\ URespond(u, 200)
              /\ UNCHANGED stored
         ELSE /\ stored' = [stored EXCEPT ![u] = ~rmOk]
              /\ URespond(u, 500)
              /\ UNCHANGED <<dataset, datasetTrail>>
  /\ UNCHANGED <<ucred, ufile>>

\* ------------------------------------------------- the five model workflows
Workflows == {"classification", "regression", "clustering", "forecasting", "recommendation"}

\* CHECK (problem_type IN (...)) of public.ml_models
ProblemTypeValues == {"classification", "regression", "clustering"}

ProblemTypeOk(pt) == pt \in ProblemTypeValues

\* The problem_type each page inserts.
ProblemTypeOf(w) ==
  CASE w = "forecasting" -> "forecast"
    [] w = "recommendation" -> "recommendation"
    [] OTHER -> w

\* The function each page invokes after the insert.
FunctionOf(w) ==
  CASE w = "forecasting" -> "forecast"
    [] w = "recommendation" -> "recommendation"
    [] OTHER -> "ml"

WInit ==
  /\ wpc = "idle"
  /\ workflow = "classification"
  /\ wdbUp = TRUE
  /\ inserted = ""
  /\ invoked = ""
  /\ wtoast = "none"

\* The user fills in a page and presses its create / start button.
WSubmit(w) ==
  /\ wpc \in {"idle", "done"}
  /\ workflow' = w
  /\ wpc' = "insert"
  /\ inserted' = ""
  /\ invoked' = ""
  /\ wtoast' = "none"
  /\ UNCHANGED wdbUp

\* supabase.from('ml_models').insert({..., problem_type, status: 'created'});
\* if (modelError) throw modelError -> catch: error toast.
WInsert ==
  /\ wpc = "insert"
  /\ \E up \in BOOLEAN :
       /\ wdbUp' = up
       /\ IF up /\ ProblemTypeOk(ProblemTypeOf(workflow))
            THEN /\ inserted' = ProblemTypeOf(workflow)
                 /\ wpc' = "invoke"
                 /\ UNCHANGED wtoast
            ELSE /\ wtoast' = "error"
                 /\ wpc' = "done"
                 /\ UNCHANGED inserted
  /\ UNCHANGED <<workflow, invoked>>

\* await supabase.functions.invoke(...): processing starts.
WInvoke ==
  /\ wpc = "invoke"
  /\ invoked' = FunctionOf(workflow)
  /\ wpc' = "done"
  /\ wtoast' = "started"
  /\ UNCHANGED <<workflow, wdbUp, inserted>>

\* -------------------------------------------------------------------- KMeans
\* Points of a data set, and k, at most.
MaxPoints == 3
MaxK == 2
Coords == {0, 1, 3}
\* for (let iter = 0; iter < 10; iter++)
KMeansIterations == 10

Points == {<<x>> : x \in Coords}
DataSets == UNION {[1..n -> Points] : n \in 0..MaxPoints}

\* A centroid is the mean of n points, kept as their sum and n.
CopyOf(point) == [sum |-> point, n |-> 1]

RECURSIVE SumOver(_, _, _)
SumOver(data, I, d) ==
  IF I = {} THEN 0
  ELSE LET idx == CHOOSE x \in I : TRUE
       IN data[idx][d] + SumOver(data, I \ {idx}, d)

\* centroid(points) for the points of data at the indices I.
Centroid(data, I) ==
  LET first == CHOOSE x \in I : \A y \in I : x <= y IN
  [sum |-> [d \in DOMAIN data[first] |-> SumOver(data, I, d)],
   n |-> Cardinality(I)]

RECURSIVE SumSq(_, _, _)
SumSq(point, c, D) ==
  IF D = {} THEN 0
  ELSE LET d == CHOOSE x \in D : TRUE
           diff == point[d] * c.n - c.sum[d]
       IN diff * diff + SumSq(point, c, D \ {d})

\* distance(a, b), squared, as a fraction; the square root keeps the order.
DistSq(point, c) == [num |-> SumSq(point, c, DOMAIN point), den |-> c.n * c.n]
Less(a, b) == a.num * b.den < b.num * a.den

\* nearest(point)[1]: the first index at which the distance is smallest.
Nearest(point, cs) ==
  LET dist(i) == DistSq(point, cs[i])
      idx == CHOOSE i \in 1..Len(cs) :
               /\ \A j \in 1..Len(cs) : j < i => Less(dist(i), dist(j))
               /\ \A j \in 1..Len(cs) : j > i => ~Less(dist(j), dist(i))
  IN idx - 1

\* data.map(point => this.nearest(point)[1])
Assign(data, cs) == [idx \in DOMAIN data |-> Nearest(data[idx], cs)]

Members(assign, i) == {idx \in DOMAIN assign : assign[idx] = i}

\* An update that drops the clusters that received no point.
UpdatedCentroidsDropEmpty(cs, data, assign) ==
  LET kept == SelectSeq([i \in 1..Len(cs) |-> i],
                        LAMBDA i : Members(assign, i - 1) # {})
  IN [n \in 1..Len(kept) |-> Centroid(data, Members(assign, kept[n] - 1))]

\* The centroid update of one iteration: a cluster with points moves to their
\* mean, a cluster without points keeps its centroid.
UpdatedCentroids(cs, data, assign) ==
  [i \in 1..Len(cs) |->
     IF Members(assign, i - 1) # {}
       THEN Centroid(data, Members(assign, i - 1))
       ELSE cs[i]]

\* generateClusterDistribution(assignments, numClusters): the counts.
ClusterDistribution(assign, numClusters) ==
  [i \in 1..numClusters |-> Cardinality(Members(assign, i - 1))]

KIdle ==
  /\ kpc = "off"
  /\ kdata = <<>>
  /\ kk = 0
  /\ centroids = <<>>
  /\ iter = 0
  /\ assignments = <<>>
  /\ kstable = FALSE
  /\ clusters = <<>>
  /\ distribution = <<>>

\* if (data.length === 0 || k <= 0) return; else k centroids are seeded with
\* copies of randomly chosen points.
KSeed ==
  /\ kpc = "new"
  /\ IF Len(kdata) = 0 \/ kk <= 0
       THEN /\ kpc' = "returned"
            /\ UNCHANGED centroids
       ELSE /\ \E seed \in [1..kk -> DOMAIN kdata] :
                 centroids' = [i \in 1..kk |-> CopyOf(kdata[seed[i]])]
            /\ kpc' = "loop"
  /\ UNCHANGED <<kdata, kk, iter, assignments, kstable, clusters, distribution>>

\* A loop that also ends when the assignments have stopped changing.
KLoopDoneConverged == iter >= KMeansIterations \/ kstable

KLoopDone == iter >= KMeansIterations

\* One iteration: assign every point, then update every centroid.
KIterate ==
  /\ kpc = "loop"
  /\ ~KLoopDone
  /\ assignments' = Assign(kdata, centroids)
  /\ centroids' = UpdatedCentroids(centroids, kdata, assignments')
  /\ kstable' = (iter > 0 /\ assignments' = assignments)
  /\ iter' = iter + 1
  /\ UNCHANGED <<kpc, kdata, kk, clusters, distribution>>

\* After the loop: the final assignments and this.clusters.
KFinish ==
  /\ kpc = "loop"
  /\ KLoopDone
  /\ assignments' = Assign(kdata, centroids)
  /\ clusters' = [i \in 1..Len(centroids) |->
                    [centroid |-> centroids[i],
                     size |-> Cardinality(Members(assignments', i - 1))]]
  /\ kpc' = "built"
  /\ UNCHANGED <<kdata, kk, centroids, iter, kstable, distribution>>

\* runClustering: the assignments again, and their distribution.
KDistribution ==
  /\ kpc = "built"
  /\ assignments' = Assign(kdata, centroids)
  /\ distribution' = ClusterDistribution(assignments', kk)
  /\ kpc' = "reported"
  /\ UNCHANGED <<kdata, kk, centroids, iter, kstable, clusters>>

\* ------------------------------------------------------------------- numbers
\* A JavaScript number as a fraction in lowest terms with den > 0; den = 0
\* stands for the values that are not finite: 0/0 is NaN, 1/0 is Infinity,
\* -1/0 is -Infinity.  Rounding is left out.
RECURSIVE Gcd(_, _)
Gcd(a, b) == IF b = 0 THEN a ELSE Gcd(b, a % b)

Abs(x) == IF x < 0 THEN 0 - x ELSE x
Sign(x) == IF x < 0 THEN 0 - 1 ELSE IF x > 0 THEN 1 ELSE 0
Min(a, b) == IF a < b THEN a ELSE b

Norm(n, d) ==
  IF d = 0 THEN [num |-> Sign(n), den |-> 0]
  ELSE LET g == Gcd(Abs(n), Abs(d))
       IN [num |-> Sign(d) * Sign(n) * (Abs(n) \div g), den |-> Abs(d) \div g]

Num(n) == [num |-> n, den |-> 1]
NaN == [num |-> 0, den |-> 0]
IsFinite(x) == x.den # 0
IsNaN(x) == x.den = 0 /\ x.num = 0

Neg(a) == [num |-> 0 - a.num, den |-> a.den]

Plus(a, b) ==
  CASE IsFinite(a) /\ IsFinite(b) ->
         Norm(a.num * b.den + b.num * a.den, a.den * b.den)
    [] IsNaN(a) \/ IsNaN(b) -> NaN
    [] ~IsFinite(a) /\ ~IsFinite(b) -> IF a.num = b.num THEN a ELSE NaN
    [] OTHER -> IF IsFinite(a) THEN b ELSE a

Minus(a, b) == Plus(a, Neg(b))

Times(a, b) ==
  CASE IsFinite(a) /\ IsFinite(b) -> Norm(a.num * b.num, a.den * b.den)
    [] IsNaN(a) \/ IsNaN(b) -> NaN
    [] OTHER -> Norm(Sign(a.num) * Sign(b.num), 0)

\* a / b; a zero divisor is +0 here (sums of squares, lengths).
Over(a, b) ==
  CASE IsNaN(a) \/ IsNaN(b) -> NaN
    [] IsFinite(a) /\ IsFinite(b) -> Norm(a.num * b.den, a.den * b.num)
    [] ~IsFinite(a) /\ ~IsFinite(b) -> NaN
    [] ~IsFinite(a) -> Norm(a.num * (IF b.num < 0 THEN 0 - 1 ELSE 1), 0)
    [] OTHER -> Num(0)

Sq(x) == Times(x, x)

RECURSIVE SumNum(_)
SumNum(s) == IF s = <<>> THEN Num(0) ELSE Plus(s[1], SumNum(Tail(s)))

\* ------------------------------------------------------------ SimpleForecast
\* Points of a series, and forecast periods, at most.
MaxSeriesLen == 8
MaxHorizon == 3
SeriesValues == {1, 3}
\* Math.min(12, ...)
MaxSeasonLength == 12

SeriesSet == UNION {[1..n -> SeriesValues] : n \in 1..MaxSeriesLen}

\* calculateTrend: the average first difference (0 below two points).
CalculateTrend(data) ==
  IF Len(data) < 2 THEN Num(0)
  ELSE Over(SumNum([i \in 1..(Len(data) - 1) |-> Num(data[i + 1] - data[i])]),
            Num(Len(data) - 1))

SeasonLength(data) == Min(MaxSeasonLength, Len(data) \div 4)

\* calculateSeasonal: entry i (from 0) averages data[i], data[i + L], ...
CalculateSeasonal(data) ==
  LET L == SeasonLength(data) IN
  [i1 \in 1..L |->
     LET js == SelectSeq([j \in 1..Len(data) |-> j],
                         LAMBDA j : j >= i1 /\ (j - i1) % L = 0)
     IN IF Len(js) > 0
          THEN Over(SumNum([n \in 1..Len(js) |-> Num(data[js[n]])]), Num(Len(js)))
          ELSE Num(0)]

\* this.seasonal[i % this.seasonal.length]: with an empty array the index is
\* NaN and the element undefined, NaN as a number.
SeasonalAt(seasonal, i) ==
  IF Len(seasonal) = 0 THEN NaN ELSE seasonal[(i % Len(seasonal)) + 1]

\* this.seasonal.reduce((a, b) => a + b, 0) / this.seasonal.length
SeasonalMean(seasonal) == Over(SumNum(seasonal), Num(Len(seasonal)))

\* forecast(periods).forecast
Forecast(data, n) ==
  LET trend == CalculateTrend(data)
      seasonal == CalculateSeasonal(data)
      lastValue == Num(data[Len(data)])
  IN [i1 \in 1..n |->
        LET i == i1 - 1
            trendComponent == Times(trend, Num(i + 1))
            seasonalComponent == Minus(SeasonalAt(seasonal, i), SeasonalMean(seasonal))
        IN Plus(Plus(lastValue, trendComponent), seasonalComponent)]

\* predicted[i], undefined (NaN as a number) past the end.
At(s, i) == IF i \in DOMAIN s THEN s[i] ELSE NaN

\* An R2 that answers 0 when the total sum of squares is 0.
CalculateR2Guarded(actual, predicted) ==
  LET mean == Over(SumNum([i \in DOMAIN actual |-> Num(actual[i])]), Num(Len(actual)))
      len == Min(Len(actual), Len(predicted))
      ssRes == SumNum([i \in 1..len |-> Sq(Minus(Num(actual[i]), predicted[i]))])
      ssTot == SumNum([i \in 1..len |-> Sq(Minus(Num(actual[i]), mean))])
  IN IF ssTot = Num(0) THEN Num(0) ELSE Minus(Num(1), Over(ssRes, ssTot))

\* calculateR2 of process-forecast-model
CalculateR2(actual, predicted) ==
  LET mean == Over(SumNum([i \in DOMAIN actual |-> Num(actual[i])]), Num(Len(actual)))
      len == Min(Len(actual), Len(predicted))
      ssRes == SumNum([i \in 1..len |-> Sq(Minus(Num(actual[i]), predicted[i]))])
      ssTot == SumNum([i \in 1..len |-> Sq(Minus(Num(actual[i]), mean))])
  IN Minus(Num(1), Over(ssRes, ssTot))

\* calculateR2 of the native process-ml-model (actual is not empty)
CalculateR2Native(actual, predicted) ==
  LET mean == Over(SumNum([i \in DOMAIN actual |-> Num(actual[i])]), Num(Len(actual)))
      totalSumSquares ==
        SumNum([i \in DOMAIN actual |-> Sq(Minus(Num(actual[i]), mean))])
      residualSumSquares ==
        SumNum([i \in DOMAIN actual |-> Sq(Minus(Num(actual[i]), At(predicted, i)))])
  IN Minus(Num(1), Over(residualSumSquares, totalSumSquares))

\* values.slice(0, splitPoint) and values.slice(splitPoint), with
\* splitPoint = Math.floor(values.length * 0.8)
SplitPoint(vs) == (Len(vs) * 4) \div 5
TrainData(vs) == SubSeq(vs, 1, SplitPoint(vs))
TestData(vs) == SubSeq(vs, SplitPoint(vs) + 1, Len(vs))

SIdle ==
  /\ fpc = "off"
  /\ values = <<>>
  /\ forecastHorizon = 0
  /\ forecastResult = <<>>
  /\ testForecast = <<>>
  /\ r2Score = Num(0)
  /\ r2Native = Num(0)

\* if (timeSeriesData.length < 2) throw; else the forecast over the horizon.
SForecast ==
  /\ fpc = "new"
  /\ IF Len(values) < 2
       THEN /\ fpc' = "thrown"
            /\ UNCHANGED forecastResult
       ELSE /\ forecastResult' = Forecast(values, forecastHorizon)
            /\ fpc' = "split"
  /\ UNCHANGED <<values, forecastHorizon, testForecast, r2Score, r2Native>>

\* The train/test split and the r2 of the test forecast (by calculateR2, and
\* by the native version's calculateR2 for the same two arrays).
SMetrics ==
  /\ fpc = "split"
  /\ IF Len(TestData(values)) > 0
       THEN /\ testForecast' = Forecast(TrainData(values), Len(TestData(values)))
            /\ r2Score' = CalculateR2(TestData(values), testForecast')
            /\ r2Native' = CalculateR2Native(TestData(values), testForecast')
       ELSE /\ testForecast' = <<>>
            /\ r2Score' = Num(0)
            /\ r2Native' = Num(0)
  /\ fpc' = "done"
  /\ UNCHANGED <<values, forecastHorizon, forecastResult>>

\* --------------------------------------------------------- SimpleRecommender
\* addRating calls made on one recommender, and topK, at most.
MaxRatings == 4
MaxTopK == 2
\* Similarities and scores are kept to this many parts of 1.
SimScale == 100

UserNames == {"u", "v", "w"}
ItemNames == {"A", "B", "C"}
RatingValues == {0 - 1, 2}

RIdle ==
  /\ rpc = "off"
  /\ userItemMatrix = <<>>
  /\ itemUserMatrix = <<>>
  /\ users = {}
  /\ items = {}
  /\ ratingsAdded = 0
  /\ targetUser = ""
  /\ topK = 0
  /\ recommendations = <<>>

\* map.get(key).set(key2, value), after map.set(key, new Map()) for a new key
MapSet(map, key, key2, value) ==
  LET inner == IF key \in DOMAIN map THEN map[key] ELSE <<>>
      inner2 == [x \in DOMAIN inner \cup {key2} |->
                   IF x = key2 THEN value ELSE inner[x]]
  IN [x \in DOMAIN map \cup {key} |-> IF x = key THEN inner2 ELSE map[x]]

\* An addRating that leaves the item-user matrix alone for a pair it already
\* holds.
AddRatingBodyKeepFirst(user, item, rating) ==
  /\ userItemMatrix' = MapSet(userItemMatrix, user, item, rating)
  /\ itemUserMatrix' =
       IF item \in DOMAIN itemUserMatrix /\ user \in DOMAIN itemUserMatrix[item]
         THEN itemUserMatrix
         ELSE MapSet(itemUserMatrix, item, user, rating)
  /\ users' = users \cup {user}
  /\ items' = items \cup {item}

\* The body of addRating(user, item, rating)
AddRatingBody(user, item, rating) ==
  /\ userItemMatrix' = MapSet(userItemMatrix, user, item, rating)
  /\ itemUserMatrix' = MapSet(itemUserMatrix, item, user, rating)
  /\ users' = users \cup {user}
  /\ items' = items \cup {item}

\* addRating(user, item, rating)
AddRating(user, item, rating) ==
  /\ rpc = "building"
  /\ ratingsAdded < MaxRatings
  /\ AddRatingBody(user, item, rating)
  /\ ratingsAdded' = ratingsAdded + 1
  /\ UNCHANGED <<rpc, targetUser, topK, recommendations>>

RECURSIVE ISqrtBetween(_, _, _)
ISqrtBetween(n, lo, hi) ==
  IF lo >= hi THEN lo
  ELSE LET mid == (lo + hi + 1) \div 2
       IN IF mid * mid <= n THEN ISqrtBetween(n, mid, hi)
          ELSE ISqrtBetween(n, lo, mid - 1)

\* Math.sqrt(x), in parts of 1 / SimScale
SqrtScaled(x) == ISqrtBetween(x * SimScale * SimScale, 0, x * SimScale)

RECURSIVE SumOf(_, _)
SumOf(f, S) ==
  IF S = {} THEN 0
  ELSE LET x == CHOOSE y \in S : TRUE IN f[x] + SumOf(f, S \ {x})

\* calculateUserSimilarity(user1, user2), in parts of 1 / SimScale: the cosine
\* of the two users' ratings of the items both have rated.
CalculateUserSimilarity(matrix, user1, user2) ==
  IF user1 \notin DOMAIN matrix \/ user2 \notin DOMAIN matrix THEN 0
  ELSE
    LET r1 == matrix[user1]
        r2 == matrix[user2]
        commonItems == DOMAIN r1 \cap DOMAIN r2
        dotProduct == SumOf([i \in commonItems |-> r1[i] * r2[i]], commonItems)
        norm1 == SumOf([i \in commonItems |-> r1[i] * r1[i]], commonItems)
        norm2 == SumOf([i \in commonItems |-> r2[i] * r2[i]], commonItems)
    IN IF commonItems = {} THEN 0
       ELSE IF norm1 = 0 \/ norm2 = 0 THEN 0
       ELSE Sign(dotProduct) *
              ((Abs(dotProduct) * SimScale * SimScale * SimScale)
                 \div (SqrtScaled(norm1) * SqrtScaled(norm2)))

\* userSimilarities: the other users with a similarity above 0.
UserSimilarities(matrix, us, target) ==
  LET others2 == {o \in us \ {target} :
                    CalculateUserSimilarity(matrix, target, o) > 0}
  IN [o \in others2 |-> CalculateUserSimilarity(matrix, target, o)]

\* Scores for every item a similar user has rated, also those the target user
\* has rated.
ItemScoresAll(matrix, us, target) ==
  LET sims == UserSimilarities(matrix, us, target)
      scored == UNION {DOMAIN matrix[o] : o \in DOMAIN sims}
  IN [i \in scored |->
        LET raters == {o \in DOMAIN sims : i \in DOMAIN matrix[o]}
        IN SumOf([o \in raters |-> sims[o] * matrix[o][i]], raters)]

\* itemScores: for every item a similar user has rated and the target user
\* has not, the sum of similarity * rating over the similar users who rated it.
ItemScores(matrix, us, target) ==
  LET sims == UserSimilarities(matrix, us, target)
      scored == {i \in UNION {DOMAIN matrix[o] : o \in DOMAIN sims} :
                   i \notin DOMAIN matrix[target]}
  IN [i \in scored |->
        LET raters == {o \in DOMAIN sims : i \in DOMAIN matrix[o]}
        IN SumOf([o \in raters |-> sims[o] * matrix[o][i]], raters)]

\* A comparator that sorts the lowest score first.
CompareAscending(a, b) == a.score - b.score

\* (a, b) => b.score - a.score
Compare(a, b) == b.score - a.score

\* The orders sort(Compare) can leave the entries in: no entry stands before
\* one that the comparator puts first (entries that compare equal keep the
\* order of the score map, which is any order here).
Sorted(scores) ==
  {s \in [1..Cardinality(DOMAIN scores) -> {[item |-> i, score |-> scores[i]] : i \in DOMAIN scores}] :
     /\ \A p, q \in DOMAIN s : p # q => s[p].item # s[q].item
     /\ \A p, q \in DOMAIN s : p < q => Compare(s[p], s[q]) <= 0}

\* getRecommendations(targetUser, topK): the results it can return.
GetRecommendations(matrix, us, target, k) ==
  IF target \notin DOMAIN matrix THEN {<<>>}
  ELSE {SubSeq(s, 1, Min(k, Len(s))) : s \in Sorted(ItemScores(matrix, us, target))}

\* The handler asks for the recommendations of a user.
Recommend(user, k) ==
  /\ rpc = "building"
  /\ targetUser' = user
  /\ topK' = k
  /\ recommendations' \in GetRecommendations(userItemMatrix, users, user, k)
  /\ rpc' = "recommended"
  /\ UNCHANGED <<userItemMatrix, itemUserMatrix, users, items, ratingsAdded>>

\* -------------------------------------- the recommendation handler's metrics
\* Rows of validRatings, at most, and the fewest the handler accepts.
MaxValidRatings == 10
MinValidRatings == 10

EvalUsers == {"u", "v"}
EvalItems == {"A", "B"}
\* Ratings that make users similar.
EvalRatings == {r \in RatingValues : r > 0}

QIdle ==
  /\ userRows = <<>>
  /\ sampled = <<>>
  /\ validEvaluations = 0
  /\ precisionAtK = Num(0)
  /\ recallAtK = Num(0)

\* for (const row of validRatings) recommender.addRating(user, item, rating):
\* one row more.
ELoad(user, item, rating) ==
  /\ rpc = "building"
  /\ ratingsAdded < MaxValidRatings
  /\ AddRatingBody(user, item, rating)
  /\ ratingsAdded' = ratingsAdded + 1
  /\ userRows' = [x \in DOMAIN userRows \cup {user} |->
                    IF x = user
                      THEN Append(IF user \in DOMAIN userRows
                                    THEN userRows[user] ELSE <<>>, item)
                      ELSE userRows[x]]
  /\ UNCHANGED <<rpc, targetUser, topK, recommendations>>
  /\ UNCHANGED <<sampled, validEvaluations, precisionAtK, recallAtK>>

\* userItems.slice(-Math.max(1, Math.floor(userItems.length * 0.2)))
TestItems(userItems) ==
  LET m == IF Len(userItems) \div 5 > 1 THEN Len(userItems) \div 5 ELSE 1
  IN IF m >= Len(userItems) THEN userItems
     ELSE SubSeq(userItems, Len(userItems) - m + 1, Len(userItems))

\* topK.filter(pred => actual.includes(pred.item)).length, topK being
\* predictions.slice(0, k)
RelevantCount(preds, actual, k) ==
  Cardinality({p \in 1..Min(k, Len(preds)) :
                 \E a \in DOMAIN actual : actual[a] = preds[p].item})

\* calculatePrecisionAtK(predictions, actual, k)
CalculatePrecisionAtK(preds, actual, k) ==
  Over(Num(RelevantCount(preds, actual, k)), Num(k))

\* calculateRecallAtK(predictions, actual, k)
CalculateRecallAtK(preds, actual, k) ==
  IF Len(actual) > 0
    THEN Over(Num(RelevantCount(preds, actual, k)), Num(Len(actual)))
    ELSE Num(0)

RECURSIVE SumOverUsers(_, _)
SumOverUsers(f, S) ==
  IF S = {} THEN Num(0)
  ELSE LET x == CHOOSE y \in S : TRUE IN Plus(f[x], SumOverUsers(f, S \ {x}))

\* The evaluation of the handler: at least MinValidRatings rows (else it
\* throws); the users with more than one row are evaluated (they are fewer
\* than the five the handler evaluates at most); the metrics are the averages
\* over them, 0 without any.
EEvaluate(k) ==
  /\ rpc = "building"
  /\ IF ratingsAdded < MinValidRatings
       THEN /\ rpc' = "thrown"
            /\ UNCHANGED <<topK, sampled, validEvaluations, precisionAtK, recallAtK>>
       ELSE LET evaluated == {u \in DOMAIN userRows : Len(userRows[u]) > 1} IN
            \E preds \in [evaluated ->
                            UNION {GetRecommendations(userItemMatrix, users, u, k) :
                                     u \in evaluated}] :
              /\ \A u \in evaluated :
                   preds[u] \in GetRecommendations(userItemMatrix, users, u, k)
              /\ topK' = k
              /\ sampled' = preds
              /\ validEvaluations' = Cardinality(evaluated)
              /\ precisionAtK' =
                   IF evaluated # {}
                     THEN Over(SumOverUsers(
                                 [u \in evaluated |->
                                    CalculatePrecisionAtK(preds[u], TestItems(userRows[u]), k)],
                                 evaluated),
                               Num(Cardinality(evaluated)))
                     ELSE Num(0)
              /\ recallAtK' =
                   IF evaluated # {}
                     THEN Over(SumOverUsers(
                                 [u \in evaluated |->
                                    CalculateRecallAtK(preds[u], TestItems(userRows[u]), k)],
                                 evaluated),
                               Num(Cardinality(evaluated)))
                     ELSE Num(0)
              /\ rpc' = "evaluated"
  /\ UNCHANGED <<userItemMatrix, itemUserMatrix, users, items, ratingsAdded,
                 targetUser, recommendations, userRows>>

\* ----------------------------------------------------------- runClassification
\* Rows of the processed data, at most.
MaxRows == 3
CellValues == {0, 1, 2}

\* processedData.data: rows of one width (one or two numeric columns).
ProcessedDataSets ==
  UNION {[1..n -> [1..w -> CellValues]] : n \in 0..MaxRows, w \in 1..2}

NIdle ==
  /\ npc = "off"
  /\ processedData = <<>>
  /\ predictions = <<>>
  /\ actualBinary = <<>>
  /\ accuracy = Num(0)

\* data.map(row => row[row.length - 1])
TargetOf(data) == [i \in DOMAIN data |-> data[i][Len(data[i])]]

\* target.map(val => val > ss.mean(target) ? 1 : 0)
ActualBinary(target) ==
  LET threshold == Over(SumNum([i \in DOMAIN target |-> Num(target[i])]),
                        Num(Len(target)))
  IN [i \in DOMAIN target |->
        IF target[i] * threshold.den > threshold.num THEN 1 ELSE 0]

\* features.map(() => Math.random() > 0.5 ? 1 : 0): one coin per row.
Predictions(data) == [DOMAIN data -> {0, 1}]

\* calculateAccuracy(predictions, actual)
CalculateAccuracy(preds, actual) ==
  LET correct == Cardinality({idx \in DOMAIN preds : preds[idx] = actual[idx]})
  IN Over(Num(correct), Num(Len(preds)))

\* Number(x.toFixed(3)) for x >= 0
ToFixed3(x) == Norm((2000 * x.num + x.den) \div (2 * x.den), 1000)

\* The fallback for too little data, else the labels and the predictions.
NClassify ==
  /\ npc = "new"
  /\ IF Len(processedData) < 2 \/ Len(processedData[1]) < 2
       THEN /\ npc' = "fallback"
            /\ UNCHANGED <<predictions, actualBinary>>
       ELSE /\ predictions' \in Predictions(processedData)
            /\ actualBinary' = ActualBinary(TargetOf(processedData))
            /\ npc' = "labelled"
  /\ UNCHANGED <<processedData, accuracy>>

\* metrics.accuracy
NAccuracy ==
  /\ npc = "labelled"
  /\ accuracy' = ToFixed3(CalculateAccuracy(predictions, actualBinary))
  /\ npc' = "reported"
  /\ UNCHANGED <<processedData, predictions, actualBinary>>

\* ------------------------------------------------------------- runRegression
LIdle ==
  /\ lpc = "off"
  /\ regressionData = <<>>
  /\ slope = Num(0)
  /\ intercept = Num(0)
  /\ fitted = <<>>

\* data.map(row => row[0])
FeatureOf(data) == [i \in DOMAIN data |-> data[i][1]]

\* new SimpleLinearRegression(x, y).slope
SlopeOf(x, y) ==
  LET n == Num(Len(x))
      sumX == SumNum([i \in DOMAIN x |-> Num(x[i])])
      sumY == SumNum([i \in DOMAIN y |-> Num(y[i])])
      sumXY == SumNum([i \in DOMAIN x |-> Num(x[i] * y[i])])
      sumXX == SumNum([i \in DOMAIN x |-> Num(x[i] * x[i])])
  IN Over(Minus(Times(n, sumXY), Times(sumX, sumY)),
          Minus(Times(n, sumXX), Times(sumX, sumX)))

\* new SimpleLinearRegression(x, y).intercept, given this.slope
InterceptOf(x, y, m) ==
  LET n == Num(Len(x))
      sumX == SumNum([i \in DOMAIN x |-> Num(x[i])])
      sumY == SumNum([i \in DOMAIN y |-> Num(y[i])])
  IN Over(Minus(sumY, Times(m, sumX)), n)

\* regression.predict(val)
Predict(m, b, val) == Plus(Times(m, Num(val)), b)

\* The fallback for too little data, else the fit of the last column on the
\* first one.
LFit ==
  /\ lpc = "new"
  /\ IF Len(regressionData) < 2 \/ Len(regressionData[1]) < 2
       THEN /\ lpc' = "fallback"
            /\ UNCHANGED <<slope, intercept>>
       ELSE LET x == FeatureOf(regressionData)
                y == TargetOf(regressionData)
            IN /\ slope' = SlopeOf(x, y)
               /\ intercept' = InterceptOf(x, y, SlopeOf(x, y))
               /\ lpc' = "fitted"
  /\ UNCHANGED <<regressionData, fitted>>

\* predictions = x.map(val => regression.predict(val))
LPredict ==
  /\ lpc = "fitted"
  /\ fitted' = [i \in DOMAIN regressionData |->
                  Predict(slope, intercept, FeatureOf(regressionData)[i])]
  /\ lpc' = "predicted"
  /\ UNCHANGED <<regressionData, slope, intercept>>

\* ------------------------------------------------------ generate-chart-data
\* Rows of the CSV, at most.
MaxRecords == 2

\* The version that reads the records by column name, and the one that reads
\* them by the index of the column in the header line.
ChartVariants == {"byName", "byIndex"}
ChartTypes == {"bar", "pie"}
\* A cell: empty, a number, a text that is no number.
Cells == {"", "7", "n"}
Undefined == "undefined"

RecordSets == UNION {[1..n -> [x : Cells, y : Cells]] : n \in 0..MaxRecords}

GIdle ==
  /\ gpc = "off"
  /\ gvariant = "byName"
  /\ chartType = "bar"
  /\ xKnown = TRUE
  /\ yKnown = TRUE
  /\ records = <<>>
  /\ gi = 0
  /\ labels = <<>>
  /\ chartValues = <<>>
  /\ gresp = 0

\* The catch block: status 400.
GThrow ==
  /\ gresp' = 400
  /\ gpc' = "done"

\* record[xColumn] / record[xColumnIndex]: undefined for a column the
\* records do not have.
CellOf(known, cell) == IF known THEN cell ELSE Undefined

\* !isNaN(parseFloat(yValue))
IsNumeric(cell) == cell = "7"

\* After the download and parse: no record is an error; the version reading by
\* index looks both columns up in the header line first.
GStart ==
  /\ gpc = "new"
  /\ IF records = <<>> \/ (gvariant = "byIndex" /\ ~(xKnown /\ yKnown))
       THEN GThrow /\ UNCHANGED gi
       ELSE gpc' = "loop" /\ gi' = 1 /\ UNCHANGED gresp
  /\ UNCHANGED <<gvariant, chartType, xKnown, yKnown, records, labels, chartValues>>

\* One pass of the loop over the records, reading by name: the label is
\* pushed when xValue is neither undefined nor null; then the value is pushed
\* when it is numeric, else 0 for a pie chart, else the handler throws.
GRecordByName ==
  LET xValue == CellOf(xKnown, records[gi].x)
      yValue == CellOf(yKnown, records[gi].y)
      pushed == IF xValue # Undefined
                  THEN Append(labels, [row |-> gi, text |-> xValue])
                  ELSE labels
  IN /\ gvariant = "byName"
     /\ labels' = pushed
     /\ IF IsNumeric(yValue)
          THEN /\ chartValues' = Append(chartValues, [row |-> gi, num |-> 7])
               /\ gi' = gi + 1
               /\ UNCHANGED <<gpc, gresp>>
          ELSE IF chartType # "pie"
                 THEN GThrow /\ UNCHANGED <<chartValues, gi>>
                 ELSE /\ chartValues' = Append(chartValues, [row |-> gi, num |-> 0])
                      /\ gi' = gi + 1
                      /\ UNCHANGED <<gpc, gresp>>

\* One pass of the loop, reading by index: a record without an x value or
\* without a numeric y value is skipped, else both are pushed.
GRecordByIndex ==
  LET xValue == CellOf(xKnown, records[gi].x)
      yValue == CellOf(yKnown, records[gi].y)
      skip == xValue \in {Undefined, ""} \/ ~IsNumeric(yValue)
  IN /\ gvariant = "byIndex"
     /\ labels' = IF skip THEN labels
                  ELSE Append(labels, [row |-> gi, text |-> xValue])
     /\ chartValues' = IF skip THEN chartValues
                       ELSE Append(chartValues, [row |-> gi, num |-> 7])
     /\ gi' = gi + 1
     /\ UNCHANGED <<gpc, gresp>>

GRecord ==
  /\ gpc = "loop"
  /\ gi <= Len(records)
  /\ GRecordByName \/ GRecordByIndex
  /\ UNCHANGED <<gvariant, chartType, xKnown, yKnown, records>>

\* After the loop: no value is an error, else the response with labels and
\* values.
GRespond ==
  /\ gpc = "loop"
  /\ gi > Len(records)
  /\ IF chartValues = <<>> THEN GThrow ELSE gresp' = 200 /\ gpc' = "done"
  /\ UNCHANGED <<gvariant, chartType, xKnown, yKnown, records, gi, labels, chartValues>>

\* ------------------------------------------------- the MLStudio selections
DatasetIds == {"d1", "d2"}

\* problemTypes: the subtype ids of each problem category
ProblemTypes ==
  [classification |-> {"churn", "fraud", "sentiment", "quality"},
   regression |-> {"revenue", "pricing", "demand", "ltv"},
   clustering |-> {"segmentation", "market", "product", "user"}]

NoModel == [problem_type |-> "", problem_subtype |-> ""]

MIdle ==
  /\ mpc = "off"
  /\ selectedDataset = ""
  /\ selectedProblem = ""
  /\ selectedProblemType = ""
  /\ studioModel = NoModel

\* getCurrentProblemTypes(), as the set of the ids
GetCurrentProblemTypes ==
  IF selectedProblem = "" THEN {} ELSE ProblemTypes[selectedProblem]

\* <Select value={selectedDataset} onValueChange={setSelectedDataset}>
MSelectDataset(d) ==
  /\ mpc = "choosing"
  /\ selectedDataset' = d
  /\ UNCHANGED <<mpc, selectedProblem, selectedProblemType, studioModel>>

\* <Select value={selectedProblem} onValueChange={setSelectedProblem}>
MSelectProblem(p) ==
  /\ mpc = "choosing"
  /\ selectedProblem' = p
  /\ UNCHANGED <<mpc, selectedDataset, selectedProblemType, studioModel>>

\* onClick={() => setSelectedProblemType(type.id)} on one of the cards of
\* getCurrentProblemTypes()
MSelectProblemType(t) ==
  /\ mpc = "choosing"
  /\ t \in GetCurrentProblemTypes
  /\ selectedProblemType' = t
  /\ UNCHANGED <<mpc, selectedDataset, selectedProblem, studioModel>>

\* handleStartTraining up to the insert of the ml_models row; the button is
\* disabled without a dataset or a subtype.
MStartTraining ==
  /\ mpc = "choosing"
  /\ selectedDataset # ""
  /\ selectedProblemType # ""
  /\ \E dbOk \in BOOLEAN :
       studioModel' =
         IF dbOk /\ ProblemTypeOk(selectedProblem)
           THEN [problem_type |-> selectedProblem,
                 problem_subtype |-> selectedProblemType]
           ELSE NoModel
  /\ mpc' = "started"
  /\ UNCHANGED <<selectedDataset, selectedProblem, selectedProblemType>>

EIdle == LIdle /\ QIdle /\ GIdle /\ MIdle

FIdle == KIdle /\ SIdle /\ RIdle /\ NIdle /\ EIdle

OthersIdle == UInit /\ WInit /\ FIdle

\* ------------------------------------------------------- the specifications
\* Any caller, any function, any request, against an existing row.
Start(i) ==
  /\ \E f \in Fns, c \in Creds, b \in Bodies : Request(i, f, c, b)
  /\ UNCHANGED <<cvars, others>>

Auth(i) == HAuth(i) /\ UNCHANGED <<cvars, others>>
ParseBody(i) == HParseBody(i) /\ UNCHANGED <<cvars, others>>
FetchModel(i) == HFetchModel(i) /\ UNCHANGED <<cvars, others>>
WriteStart(i) == HWriteStart(i) /\ UNCHANGED <<cvars, others>>
WriteProgress(i) == HWriteProgress(i) /\ UNCHANGED <<cvars, others>>
Final(i) == HFinal(i) /\ UNCHANGED <<cvars, others>>
Catch(i) == HCatch(i) /\ UNCHANGED <<cvars, others>>

Init == HInit /\ CInit /\ row = NewRow /\ OthersIdle

Next ==
  \E i \in Inv :
    \/ Start(i)
    \/ Auth(i)
    \/ ParseBody(i)
    \/ FetchModel(i)
    \/ WriteStart(i)
    \/ WriteProgress(i)
    \/ Final(i)
    \/ Catch(i)

Spec == Init /\ [][Next]_vars

\* The MLStudio page with its own invocation, and the same user's other tabs
\* invoking process-ml-model for the same model id.
RivalStart(i) ==
  /\ i # ClientInv
  /\ cpc # "idle"
  /\ \E b \in {"m1"} : Request(i, "ml", Owner, b)
  /\ UNCHANGED <<cvars, others>>

ClientInit == HInit /\ CInit /\ row = NoRow /\ OthersIdle

ClientNext ==
  \/ CClick
  \/ CInvoke
  \/ CInvokeReturned
  \/ CTick
  \/ CPollResponse
  \/ CTimeout
  \/ \E i \in Inv :
       \/ RivalStart(i)
       \/ Auth(i)
       \/ ParseBody(i)
       \/ FetchModel(i)
       \/ WriteStart(i)
       \/ WriteProgress(i)
       \/ Final(i)
       \/ Catch(i)

ClientSpec == ClientInit /\ [][ClientNext]_vars

\* The data pages: dataset uploads and model creation in the five workflows.
trainingVars == <<hvars, cvars>>
TrainingIdle == HInit /\ mlVariant = "json" /\ CInit /\ row = NoRow

Upload(u) ==
  /\ \E c \in Creds, f \in Files : UploadRequest(u, c, f)
  /\ UNCHANGED <<trainingVars, wvars, fvars>>

UploadAuth(u) == UAuth(u) /\ UNCHANGED <<trainingVars, wvars, fvars>>
UploadForm(u) == UForm(u) /\ UNCHANGED <<trainingVars, wvars, fvars>>
UploadStore(u) == UStore(u) /\ UNCHANGED <<trainingVars, wvars, fvars>>
UploadInsert(u) == UInsert(u) /\ UNCHANGED <<trainingVars, wvars, fvars>>
Submit == (\E w \in Workflows : WSubmit(w)) /\ UNCHANGED <<trainingVars, uvars, fvars>>
CreateInsert == WInsert /\ UNCHANGED <<trainingVars, uvars, fvars>>
CreateInvoke == WInvoke /\ UNCHANGED <<trainingVars, uvars, fvars>>

PagesInit == TrainingIdle /\ UInit /\ WInit /\ FIdle

PagesNext ==
  \/ \E u \in Uploads :
       \/ Upload(u)
       \/ UploadAuth(u)
       \/ UploadForm(u)
       \/ UploadStore(u)
       \/ UploadInsert(u)
  \/ Submit
  \/ CreateInsert
  \/ CreateInvoke

PagesSpec == PagesInit /\ [][PagesNext]_vars

\* new KMeans(data, k) on any small data set with any k, and the cluster
\* distribution runClustering reports for it.
notFvars == <<trainingVars, uvars, wvars, evars>>
NotFIdle == TrainingIdle /\ UInit /\ WInit /\ EIdle

Seed == KSeed /\ UNCHANGED <<notFvars, svars, rvars, nvars>>
Iterate == KIterate /\ UNCHANGED <<notFvars, svars, rvars, nvars>>
Finish == KFinish /\ UNCHANGED <<notFvars, svars, rvars, nvars>>
Distribution == KDistribution /\ UNCHANGED <<notFvars, svars, rvars, nvars>>

KMeansInit ==
  /\ NotFIdle
  /\ SIdle
  /\ RIdle
  /\ NIdle
  /\ kpc = "new"
  /\ kdata \in DataSets
  /\ kk \in 0..MaxK
  /\ centroids = <<>>
  /\ iter = 0
  /\ assignments = <<>>
  /\ kstable = FALSE
  /\ clusters = <<>>
  /\ distribution = <<>>

KMeansNext == Seed \/ Iterate \/ Finish \/ Distribution

KMeansSpec == KMeansInit /\ [][KMeansNext]_vars

\* SimpleForecast and the metrics of the forecast handler, on any small series.
ForecastStep == SForecast /\ UNCHANGED <<notFvars, kvars, rvars, nvars>>
MetricsStep == SMetrics /\ UNCHANGED <<notFvars, kvars, rvars, nvars>>

ForecastInit ==
  /\ NotFIdle
  /\ KIdle
  /\ RIdle
  /\ NIdle
  /\ fpc = "new"
  /\ values \in SeriesSet
  /\ forecastHorizon \in 1..MaxHorizon
  /\ forecastResult = <<>>
  /\ testForecast = <<>>
  /\ r2Score = Num(0)
  /\ r2Native = Num(0)

ForecastNext == ForecastStep \/ MetricsStep

ForecastSpec == ForecastInit /\ [][ForecastNext]_vars

\* A SimpleRecommender built by any few addRating calls and then asked for
\* the recommendations of any user.
Rate ==
  /\ \E user \in UserNames, item \in ItemNames, rating \in RatingValues :
       AddRating(user, item, rating)
  /\ UNCHANGED <<notFvars, kvars, svars, nvars>>

Recommendations ==
  /\ \E user \in UserNames, k \in 1..MaxTopK : Recommend(user, k)
  /\ UNCHANGED <<notFvars, kvars, svars, nvars>>

RecommenderInit ==
  /\ NotFIdle
  /\ KIdle
  /\ SIdle
  /\ NIdle
  /\ rpc = "building"
  /\ userItemMatrix = <<>>
  /\ itemUserMatrix = <<>>
  /\ users = {}
  /\ items = {}
  /\ ratingsAdded = 0
  /\ targetUser = ""
  /\ topK = 0
  /\ recommendations = <<>>

RecommenderNext == Rate \/ Recommendations

RecommenderSpec == RecommenderInit /\ [][RecommenderNext]_vars

\* runClassification on any small processed data set.
Classify == NClassify /\ UNCHANGED <<notFvars, kvars, svars, rvars>>
Accuracy == NAccuracy /\ UNCHANGED <<notFvars, kvars, svars, rvars>>

ClassificationInit ==
  /\ NotFIdle
  /\ KIdle
  /\ SIdle
  /\ RIdle
  /\ npc = "new"
  /\ processedData \in ProcessedDataSets
  /\ predictions = <<>>
  /\ actualBinary = <<>>
  /\ accuracy = Num(0)

ClassificationNext == Classify \/ Accuracy

ClassificationSpec == ClassificationInit /\ [][ClassificationNext]_vars

\* What the programs below leave alone.
baseVars == <<trainingVars, uvars, wvars, kvars, svars, rvars, nvars>>
BaseIdle == TrainingIdle /\ UInit /\ WInit /\ KIdle /\ SIdle /\ RIdle /\ NIdle

\* runRegression on any small processed data set.
Fit == LFit /\ UNCHANGED <<baseVars, qvars, gvars, mvars>>
PredictAll == LPredict /\ UNCHANGED <<baseVars, qvars, gvars, mvars>>

RegressionInit ==
  /\ BaseIdle
  /\ QIdle /\ GIdle /\ MIdle
  /\ lpc = "new"
  /\ regressionData \in ProcessedDataSets
  /\ slope = Num(0)
  /\ intercept = Num(0)
  /\ fitted = <<>>

RegressionNext == Fit \/ PredictAll

RegressionSpec == RegressionInit /\ [][RegressionNext]_vars

\* The recommendation handler from its validRatings to its metrics, on any
\* few rows of two users and two items.
LoadRow ==
  /\ \E user \in EvalUsers, item \in EvalItems, rating \in EvalRatings :
       ELoad(user, item, rating)
  /\ UNCHANGED <<trainingVars, uvars, wvars, kvars, svars, nvars, lvars, gvars, mvars>>

Evaluate ==
  /\ \E k \in 1..MaxTopK : EEvaluate(k)
  /\ UNCHANGED <<trainingVars, uvars, wvars, kvars, svars, nvars, lvars, gvars, mvars>>

EvaluationInit ==
  /\ TrainingIdle /\ UInit /\ WInit /\ KIdle /\ SIdle /\ NIdle /\ LIdle
  /\ GIdle /\ MIdle
  /\ QIdle
  /\ rpc = "building"
  /\ userItemMatrix = <<>>
  /\ itemUserMatrix = <<>>
  /\ users = {}
  /\ items = {}
  /\ ratingsAdded = 0
  /\ targetUser = ""
  /\ topK = 0
  /\ recommendations = <<>>

EvaluationNext == LoadRow \/ Evaluate

EvaluationSpec == EvaluationInit /\ [][EvaluationNext]_vars

\* generate-chart-data on any small CSV, for any request.
ChartStart == GStart /\ UNCHANGED <<baseVars, lvars, qvars, mvars>>
ChartRecord == GRecord /\ UNCHANGED <<baseVars, lvars, qvars, mvars>>
ChartRespond == GRespond /\ UNCHANGED <<baseVars, lvars, qvars, mvars>>

ChartInit ==
  /\ BaseIdle
  /\ LIdle /\ QIdle /\ MIdle
  /\ gpc = "new"
  /\ gvariant \in ChartVariants
  /\ chartType \in ChartTypes
  /\ xKnown \in BOOLEAN
  /\ yKnown \in BOOLEAN
  /\ records \in RecordSets
  /\ gi = 0
  /\ labels = <<>>
  /\ chartValues = <<>>
  /\ gresp = 0

ChartNext == ChartStart \/ ChartRecord \/ ChartRespond

ChartSpec == ChartInit /\ [][ChartNext]_vars

\* The MLStudio page: any selections in any order, then Start.
SelectDataset ==
  /\ \E d \in DatasetIds : MSelectDataset(d)
  /\ UNCHANGED <<baseVars, lvars, qvars, gvars>>

SelectProblem ==
  /\ \E p \in DOMAIN ProblemTypes : MSelectProblem(p)
  /\ UNCHANGED <<baseVars, lvars, qvars, gvars>>

SelectProblemType ==
  /\ \E t \in UNION {ProblemTypes[p] : p \in DOMAIN ProblemTypes} :
       MSelectProblemType(t)
  /\ UNCHANGED <<baseVars, lvars, qvars, gvars>>

StartTraining == MStartTraining /\ UNCHANGED <<baseVars, lvars, qvars, gvars>>

StudioInit ==
  /\ BaseIdle
  /\ LIdle /\ QIdle /\ GIdle
  /\ mpc = "choosing"
  /\ selectedDataset = ""
  /\ selectedProblem = ""
  /\ selectedProblemType = ""
  /\ studioModel = NoModel

StudioNext == SelectDataset \/ SelectProblem \/ SelectProblemType \/ StartTraining

StudioSpec == StudioInit /\ [][StudioNext]_vars







\* ------------------------------------------------------------------ claims
Last(s) == s[Len(s)]
Running(i) == pc[i] \notin {"idle", "done"}
StatusesSent(i) == {log[i][k].status : k \in DOMAIN log[i]} \ {"-"}
Applied(i) == SelectSeq(log[i], LAMBDA e : e.ok)

\* C1: every status value sent for an ml_models row is one of created,
\* training, completed, error, deployed, and the row's status only moves
\* forward along created -> training -> completed | error.
C1_Forward(a, b) ==
  \/ a = b
  \/ a = "created" /\ b = "training"
  \/ a = "training" /\ b \in {"completed", "error"}

C1_StatusLifecycle ==
  [][ /\ \A i \in Inv : StatusesSent(i)' \subseteq StatusValues
      /\ C1_Forward(row.status, row'.status) ]_vars

\* C2: an invocation that threw after its first update was sent ends with the
\* catch block's update (status error / failed, training_progress 0) as the
\* last statement it sent, and answers 500.
C2_CatchMarksFailed ==
  \A i \in Inv :
    (pc[i] = "done" /\ threw[i] /\ log[i] # <<>>) =>
      /\ resp[i] = 500
      /\ Last(log[i]).status = FailStatus(fn[i])
      /\ Last(log[i]).progress = 0

\* C3: once the two-minute timer has fired the client has stopped polling and
\* shows success: trainingProgress 100, isTraining false, success toast.
C3_TimeoutDeclaresSuccess ==
  (cpc = "polling" /\ ~timeoutPending) =>
    /\ ~intervalActive
    /\ trainingProgress = 100
    /\ ~isTraining
    /\ toast = "success"

\* C4 (as claimed): the invocation is fire-and-forget, the client goes on to
\* its polling while the handler it invoked is still running.
C4_FireAndForget ==
  (cpc = "awaiting" /\ Running(ClientInv)) => ENABLED CInvokeReturned

\* C4 (amended): the client awaits the function's response; whenever it polls,
\* its own invocation has answered 200 and has applied its final update, and a
\* read returns training only when another invocation has stored that status.
C4_PollsAfterResponse ==
  /\ (cpc = "polling" \/ inflight > 0 \/ intervalActive) =>
       /\ pc[ClientInv] = "done"
       /\ resp[ClientInv] = 200
       /\ Last(log[ClientInv]).final /\ Last(log[ClientInv]).ok
  /\ seen = "training" =>
       \E j \in Inv \ {ClientInv} : "training" \in {e.status : e \in {Applied(j)[k] : k \in DOMAIN Applied(j)}}

C4_Witness ==
  /\ cpc = "polling"
  /\ inflight > 0
  /\ seen = "training"

\* C5: while the checkCompletion timer is set every polling interval sends one
\* status read; a read that returns completed or error clears the timer, the
\* two-minute timer clears it, and once cleared it stays cleared and no
\* further read is sent.
C5_PollingStops ==
  [][ /\ (cpc = "polling" /\ intervalActive /\ elapsed' = elapsed + 1)
           => inflight' = inflight + 1
      /\ (inflight' < inflight /\ seen' \in {"completed", "error"})
           => ~intervalActive'
      /\ (timeoutPending /\ ~timeoutPending') => ~intervalActive'
      /\ (cpc = "polling" /\ ~intervalActive)
           => (~intervalActive' /\ inflight' <= inflight) ]_vars

C5_Witness ==
  /\ cpc = "polling"
  /\ seen = "completed"
  /\ ~intervalActive
  /\ timeoutPending
  /\ elapsed = TimeoutTicks

\* C6: nothing keeps training_progress from decreasing: every applied update
\* stores exactly the value it sent, whatever was stored, and a write that
\* lowers the stored value is a write of another invocation than the one
\* whose value was stored.
C6_NoProgressGuard ==
  [][ \A i \in Inv :
        (Len(log'[i]) > Len(log[i]) /\ Last(log'[i]).ok) =>
          /\ row'.training_progress = Last(log'[i]).progress
          /\ row'.training_progress < row.training_progress => lastWriter # i ]_vars

C6_Witness ==
  \E i, j \in Inv :
    /\ i # j
    /\ Running(i) /\ Running(j)
    /\ \A n \in Inv : ~threw[n]
    /\ fn[i] = "ml" /\ fn[j] = "ml"
    /\ lastWriter = j
    /\ \E k \in DOMAIN log[i] : log[i][k].ok /\ log[i][k].progress > row.training_progress

\* C7: a request for an existing model of the caller is never answered 400,
\* 401 or 404 and always sends its first update, whatever state the row is in;
\* a running invocation always has its next step enabled; an invocation that
\* answers 200 has sent every checkpoint; and when no invocation is running
\* the row holds the results of the final update applied last, and its metrics
\* when that update carried any.
ValidRequest(i) == body[i] = "m1" /\ (fn[i] = "ml" => cred[i] = Owner)

C7_NoSerialization ==
  /\ \A i \in Inv :
       /\ (pc[i] = "done" /\ ValidRequest(i)) =>
            (resp[i] \in {200, 500} /\ log[i] # <<>>)
       /\ Running(i) => ENABLED HandlerStep(i)
       /\ resp[i] = 200 => Len(log[i]) = Len(Checkpoints(fn[i]))
  /\ (\A i \in Inv : ~Running(i)) =>
       /\ row.results = lastFinal
       /\ (lastFinal # 0 /\ Last(Applied(lastFinal)).metrics) =>
            row.metrics = lastFinal

C7_Witness ==
  \E i, j \in Inv :
    /\ i # j
    /\ resp[i] = 200
    /\ pc[j] = "final"
    /\ row.results = i
    /\ row.status = "completed"
    /\ lastWriter = j

\* C8: the progress values an invocation sends are a prefix of the fixed
\* checkpoints of its function (10, 30, 70, 90, 100 for process-ml-model; 10,
\* 30, 50, 70, 90, 100 for forecast and recommendation), followed by 0 only
\* if it threw; all lie in 0..100; and while it is the only writer the row
\* holds the value of its last applied update.
C8_List(f) ==
  IF f = "ml" THEN <<10, 30, 70, 90, 100>> ELSE <<10, 30, 50, 70, 90, 100>>

C8_IsPrefix(s, t) ==
  Len(s) <= Len(t) /\ \A k \in DOMAIN s : s[k] = t[k]

C8_Checkpoints ==
  \A i \in Inv :
    LET reset == log[i] # <<>> /\ Last(log[i]).status = FailStatus(fn[i])
        n == IF reset THEN Len(log[i]) - 1 ELSE Len(log[i])
        sent == [k \in 1..n |-> log[i][k].progress]
    IN /\ \A k \in DOMAIN log[i] : log[i][k].progress \in 0..100
       /\ C8_IsPrefix(sent, C8_List(fn[i]))
       /\ reset => (threw[i] /\ Last(log[i]).progress = 0)
       /\ ((\A j \in Inv \ {i} : log[j] = <<>>) /\ Applied(i) # <<>>) =>
            row.training_progress = Last(Applied(i)).progress

C8_Witness ==
  \E i \in Inv :
    /\ \A j \in Inv \ {i} : log[j] = <<>>
    /\ fn[i] = "recommendation"
    /\ resp[i] = 200
    /\ row.training_progress = 100

\* C9: a request without valid user credentials has no update applied to the
\* row.
C9_AuthBeforeWrite ==
  \A i \in Inv : cred[i] = "none" => Applied(i) = <<>>

\* C10: every invocation that threw, or whose final update returned an error,
\* answers with one of 400, 401, 404, 500.
C10_Failed(i) ==
  threw[i] \/ \E k \in DOMAIN log[i] : log[i][k].final /\ ~log[i][k].ok

C10_FailuresAnswered ==
  \A i \in Inv :
    pc[i] = "done" =>
      /\ resp[i] \in {200, 400, 401, 404, 500}
      /\ C10_Failed(i) => resp[i] \in {400, 401, 404, 500}

\* C11 (as claimed): every dataset row starts in status uploaded and moves
\* only along uploaded -> processing -> processed | error.
C11_Forward(a, b) ==
  \/ a = "uploaded" /\ b = "processing"
  \/ a = "processing" /\ b \in {"processed", "error"}

C11_DatasetLifecycle ==
  \A u \in Uploads :
    datasetTrail[u] # <<>> =>
      /\ datasetTrail[u][1] = "uploaded"
      /\ \A k \in 1..(Len(datasetTrail[u]) - 1) :
           C11_Forward(datasetTrail[u][k], datasetTrail[u][k + 1])

\* C11 (amended): a dataset row exists only for a request answered 200; it is
\* inserted with status processed, a value of the table's CHECK list, and
\* that is the only status it ever holds.
C11_InsertedProcessed ==
  \A u \in Uploads :
    \/ dataset[u].status = "absent" /\ datasetTrail[u] = <<>>
    \/ /\ dataset[u].status = "processed"
       /\ dataset[u].status \in DatasetStatusValues
       /\ datasetTrail[u] = <<"processed">>
       /\ uresp[u] = 200

C11_Witness ==
  \E u \in Uploads :
    /\ upc[u] = "done"
    /\ dataset[u].status = "processed"
    /\ stored[u]

\* C14: in each of the five workflows, when the database answers, the insert
\* of the ml_models row is accepted and the page goes on to invoke its
\* processing function.
C14_EveryWorkflowCreates ==
  (wpc \in {"invoke", "done"} /\ wdbUp) =>
    /\ inserted = ProblemTypeOf(workflow)
    /\ wpc = "done" => invoked = FunctionOf(workflow)

\* C12 (as claimed): every model_results row was inserted for a model row
\* read with status completed, and carries exactly the metrics and results
\* that read returned.
C12_CopyOfCompleted ==
  \A k \in DOMAIN model_results :
    /\ model_results[k].read.status = "completed"
    /\ model_results[k].metrics = model_results[k].read.metrics
    /\ model_results[k].results = model_results[k].read.results

\* C12 (amended): every model_results row was inserted for a model row read
\* with status completed; its results are the results read, which are never
\* NULL, and its metrics are the metrics read, or the empty object when the
\* model row's metrics are NULL.
C12_CopyWithDefaults ==
  \A k \in DOMAIN model_results :
    LET r == model_results[k] IN
    /\ r.read.status = "completed"
    /\ r.read.results # 0
    /\ r.results = r.read.results
    /\ r.metrics = IF r.read.metrics = 0 THEN EmptyObject ELSE r.read.metrics

C12_Witness ==
  \E k \in DOMAIN model_results :
    /\ model_results[k].read.metrics = 0
    /\ model_results[k].metrics = EmptyObject
    /\ seen = "completed"

\* C13: an update statement carries results (and metrics only together with
\* results) exactly when it sets status completed and training_progress 100;
\* an invocation sends at most one such update and sends no checkpoint twice;
\* an invocation answered with an error has applied none; and the results the
\* row holds are those of an applied final update.
C13_ResultsOnlyInFinal ==
  /\ \A i \in Inv :
       /\ \A k \in DOMAIN log[i] :
            /\ log[i][k].final <=>
                 (log[i][k].status = "completed" /\ log[i][k].progress = 100)
            /\ log[i][k].metrics => log[i][k].final
            /\ log[i][k].final => k = Len(log[i])
       /\ \A k, l \in DOMAIN log[i] :
            k < l => log[i][k].progress # log[i][l].progress
       /\ resp[i] >= 400 => \A k \in DOMAIN log[i] : ~(log[i][k].final /\ log[i][k].ok)
  /\ row.results # 0 =>
       /\ row.results = lastFinal
       /\ Last(log[lastFinal]).final /\ Last(log[lastFinal]).ok
  /\ row.metrics # 0 => Last(log[row.metrics]).metrics

C13_Witness ==
  \E i, j \in Inv :
    /\ resp[i] = 500
    /\ log[i] # <<>>
    /\ Last(log[i]).final /\ ~Last(log[i]).ok
    /\ resp[j] = 200
    /\ row.results = j
    /\ row.metrics = j

\* C15: for non-empty data and k > 0 the constructor leaves its loop only
\* after exactly 10 iterations: before that the next iteration is always
\* taken, also when the assignments have stopped changing.
C15_TenIterations ==
  /\ kpc = "loop" => iter <= KMeansIterations
  /\ (kpc = "loop" /\ iter < KMeansIterations) =>
       (ENABLED KIterate /\ ~ENABLED KFinish)
  /\ kpc \in {"built", "reported"} => iter = KMeansIterations

C15_Witness ==
  /\ kpc = "loop"
  /\ kstable
  /\ iter = KMeansIterations - 1

\* C16: an iteration leaves the centroid of a cluster without points as it
\* is and the number of centroids at k; after construction there are exactly
\* k clusters, every point has one cluster index in 0..k-1, and the cluster
\* sizes and the counts of the distribution each add up to the number of
\* points.
RECURSIVE C16_Sum(_)
C16_Sum(s) == IF s = <<>> THEN 0 ELSE s[1] + C16_Sum(Tail(s))

C16_NoEmptyClusterHandling ==
  [][ /\ (kpc = "loop" /\ kpc' = "loop") =>
           /\ Len(centroids') = kk
           /\ \A i \in 1..kk :
                Members(assignments', i - 1) = {} => centroids'[i] = centroids[i]
      /\ kpc' \in {"built", "reported"} =>
           /\ Len(clusters') = kk
           /\ DOMAIN assignments' = DOMAIN kdata
           /\ \A idx \in DOMAIN kdata : assignments'[idx] \in 0..(kk - 1)
           /\ C16_Sum([i \in 1..kk |-> clusters'[i].size]) = Len(kdata)
      /\ kpc' = "reported" =>
           /\ Len(distribution') = kk
           /\ C16_Sum(distribution') = Len(kdata) ]_vars

C16_Witness ==
  /\ kpc = "reported"
  /\ kk >= 2
  /\ \E i \in 1..kk : clusters[i].size = 0 /\ distribution[i] = 0
  /\ \E i \in 1..kk : clusters[i].size = Len(kdata)

\* C17: for a series of n >= 2 points and h >= 1 periods, forecast(h) has
\* exactly h entries, each a finite number, entry i (from 0) being the last
\* value + the average first difference * (i + 1) + (seasonal[i mod L] - the
\* mean of seasonal), with L = min(12, floor(n / 4)) and seasonal[j] the
\* average of the points at j, j + L, j + 2L, ...
C17_Seasonal(data, L, j) ==
  LET js == {x \in 0..(Len(data) - 1) : x >= j /\ (x - j) % L = 0}
  IN Over(SumNum([x \in 1..Len(data) |->
                    IF (x - 1) \in js THEN Num(data[x]) ELSE Num(0)]),
          Num(Cardinality(js)))

C17_Value(data, i) ==
  LET n == Len(data)
      L == Min(12, n \div 4)
      avgDiff == Over(Num(data[n] - data[1]), Num(n - 1))
      mean == Over(SumNum([j1 \in 1..L |-> C17_Seasonal(data, L, j1 - 1)]), Num(L))
  IN Plus(Plus(Num(data[n]), Times(avgDiff, Num(i + 1))),
          Minus(C17_Seasonal(data, L, i % L), mean))

C17_ForecastFormula ==
  fpc \in {"split", "done"} =>
    /\ Len(forecastResult) = forecastHorizon
    /\ \A i1 \in DOMAIN forecastResult :
         /\ IsFinite(forecastResult[i1])
         /\ forecastResult[i1] = C17_Value(values, i1 - 1)

\* C19: whenever all actual values of the test split are equal (a split of a
\* single point included), the total sum of squares is 0 and the r2 score,
\* computed by either calculateR2 as 1 - SSres / SStot, is not a finite
\* number; with unequal actual values and finite predictions it is finite.
C19_AllEqual(s) == \A i, j \in DOMAIN s : s[i] = s[j]

C18_Rated(user) ==
  IF user \in DOMAIN userItemMatrix THEN DOMAIN userItemMatrix[user] ELSE {}

C18_Score(user, item) ==
  LET raters == {o \in users \ {user} :
                   /\ CalculateUserSimilarity(userItemMatrix, user, o) > 0
                   /\ item \in C18_Rated(o)}
  IN SumOf([o \in raters |->
              CalculateUserSimilarity(userItemMatrix, user, o) * userItemMatrix[o][item]],
           raters)

C18_Returned == {recommendations[p].item : p \in DOMAIN recommendations}

C18_TopOf(candidates) ==
  /\ Len(recommendations) = Min(topK, Cardinality(candidates))
  /\ C18_Returned \subseteq candidates
  /\ Cardinality(C18_Returned) = Len(recommendations)
  /\ \A p \in DOMAIN recommendations :
       recommendations[p].score = C18_Score(targetUser, recommendations[p].item)
  /\ \A p, q \in DOMAIN recommendations :
       p < q => recommendations[p].score >= recommendations[q].score
  /\ \A i \in candidates \ C18_Returned : \A p \in DOMAIN recommendations :
       C18_Score(targetUser, i) <= recommendations[p].score

C18_TopKOfUnrated ==
  rpc = "recommended" =>
    IF C18_Rated(targetUser) = {} THEN recommendations = <<>>
    ELSE C18_TopOf(items \ C18_Rated(targetUser))

\* C18 (amended): the candidates are the items that u has not rated and that
\* at least one other user of positive similarity has rated; an unrated item
\* that only users of similarity 0 or less have rated is never returned.
C18_Candidates ==
  {i \in items \ C18_Rated(targetUser) :
     \E o \in users \ {targetUser} :
       /\ CalculateUserSimilarity(userItemMatrix, targetUser, o) > 0
       /\ i \in C18_Rated(o)}

C18_TopKOfScored ==
  rpc = "recommended" =>
    IF C18_Rated(targetUser) = {} THEN recommendations = <<>>
    ELSE C18_TopOf(C18_Candidates)

C18_Witness ==
  /\ rpc = "recommended"
  /\ topK = 2
  /\ Len(recommendations) = 1
  /\ Cardinality(items \ C18_Rated(targetUser)) = 2
  /\ recommendations[1].score < 0

\* C20: in runClassification the predictions follow from the same
\* mean-threshold split of the target column as the actual labels (rows with
\* the same label have the same prediction), and the accuracy reported is the
\* fraction of rows on which predictions and labels agree, to three decimals.
C20_SameSplit ==
  /\ npc \in {"labelled", "reported"} =>
       \A i, j \in DOMAIN predictions :
         actualBinary[i] = actualBinary[j] => predictions[i] = predictions[j]
  /\ npc = "reported" =>
       accuracy = ToFixed3(Over(
         Num(Cardinality({i \in DOMAIN predictions : predictions[i] = actualBinary[i]})),
         Num(Len(predictions))))

\* C21: runRegression on at least 2 rows and 2 numeric columns fits defined
\* numbers: slope and intercept are finite and satisfy the normal equations
\* n*Sxy - Sx*Sy = slope*(n*Sxx - Sx^2) and Sy = slope*Sx + n*intercept, with
\* x the first and y the last column.
C21_NormalEquations ==
  lpc \in {"fitted", "predicted"} =>
    LET x == FeatureOf(regressionData)
        y == TargetOf(regressionData)
        n == Num(Len(x))
        Sx == SumNum([i \in DOMAIN x |-> Num(x[i])])
        Sy == SumNum([i \in DOMAIN y |-> Num(y[i])])
        Sxy == SumNum([i \in DOMAIN x |-> Num(x[i] * y[i])])
        Sxx == SumNum([i \in DOMAIN x |-> Num(x[i] * x[i])])
    IN /\ IsFinite(slope)
       /\ IsFinite(intercept)
       /\ Minus(Times(n, Sxy), Times(Sx, Sy))
            = Times(slope, Minus(Times(n, Sxx), Times(Sx, Sx)))
       /\ Sy = Plus(Times(slope, Sx), Times(n, intercept))

\* C22: in every reachable state, whatever invocations for the same model id
\* run concurrently or one after another, a row whose status is completed has
\* training_progress 100 and results that are not NULL.
C22_CompletedIsWhole ==
  row.status = "completed" => row.training_progress = 100 /\ row.results # 0

\* C23: a process-ml-model request answered 401, 400 or 404 has sent no update
\* statement, so it leaves every ml_models row as it was; and a caller who does
\* not own the model sends none through process-ml-model whatever the answer,
\* so status, progress and results of another user's model cannot be changed.
C23_EarlyReturnsWriteNothing ==
  \A i \in Inv :
    fn[i] = "ml" =>
      /\ resp[i] \in {401, 400, 404} => log[i] = <<>>
      /\ (pc[i] # "idle" /\ cred[i] # row.user_id) => log[i] = <<>>

\* Another user's request for the owner's model was answered 404 while the
\* owner's own invocation has changed the row.
C23_Witness ==
  \E i, j \in Inv :
    /\ fn[i] = "ml" /\ cred[i] \notin {"none", row.user_id}
    /\ body[i] = "m1" /\ resp[i] = 404
    /\ fn[j] = "ml" /\ lastWriter = j

\* C24: a training run started in MLStudio inserts at most one model_results
\* row, also when several status reads are in flight at the moment the model
\* becomes completed.
C24_AtMostOneInsert == Len(model_results) <= 1

\* C25: after upload-dataset has answered with an error, the request has
\* created no datasets row and no file of the request is left in the bucket;
\* after a success both exist and the row's storage_path names the stored file.
C25_AllOrNothing ==
  \A u \in Uploads :
    /\ uresp[u] >= 400 => dataset[u] = NoDataset /\ ~stored[u]
    /\ uresp[u] = 200 =>
         /\ dataset[u] # NoDataset
         /\ stored[u]
         /\ dataset[u].storage_path = u

\* C26: in process-forecast-model and process-recommendation-model an insights
\* request that fails, is answered non-OK or is answered with a malformed body
\* never reaches the handler's catch block: the handler sends its final update
\* (status completed, training_progress 100, the computed results and metrics)
\* and answers 200, and when the database applies that update the row holds
\* completed, 100 and this invocation's results and metrics.
C26_InsightsFailureIsSwallowed ==
  [][\A i \in Inv :
       (pc[i] = "final" /\ pc'[i] # "final" /\ AsksInsights(fn[i])
          /\ insights'[i] # "generated") =>
         /\ ~threw'[i]
         /\ resp'[i] = 200
         /\ Len(log'[i]) = Len(log[i]) + 1
         /\ LET sent == Last(log'[i]) IN
              /\ sent.status = "completed" /\ sent.progress = 100
              /\ sent.final /\ sent.metrics
              /\ sent.ok =>
                   /\ row'.status = "completed"
                   /\ row'.training_progress = 100
                   /\ row'.results = i /\ row'.metrics = i]_vars

\* An invocation whose insights request was answered non-OK, or failed, has
\* completed the row and was answered 200.
C26_Witness ==
  \E i \in Inv :
    /\ fn[i] \in {"forecast", "recommendation"}
    /\ insights[i] \in {"", "unable"}
    /\ resp[i] = 200
    /\ lastFinal = i
    /\ row.status = "completed" /\ row.training_progress = 100
    /\ row.results = i /\ row.metrics = i

\* C27: for every data set the recommendation handler accepts (at least
\* MinValidRatings valid rows), the precision_at_k and recall_at_k it stores
\* are both 0: the test items are items the user has rated, and no prediction
\* is an item the user has rated.
C27_PrecisionRecallZero ==
  rpc = "evaluated" =>
    /\ precisionAtK = Num(0)
    /\ recallAtK = Num(0)
    /\ \A u \in DOMAIN sampled : \A p \in DOMAIN sampled[u] :
         sampled[u][p].item \notin DOMAIN userItemMatrix[u]

\* A user was evaluated whose predictions are not empty.
C27_Witness ==
  /\ rpc = "evaluated"
  /\ ratingsAdded >= MinValidRatings
  /\ validEvaluations = 2
  /\ \E u \in DOMAIN sampled : sampled[u] # <<>>
  /\ precisionAtK = Num(0)

\* C28: in every success response of generate-chart-data labels and values
\* have the same length, and labels[i] and values[i] come from the same CSV
\* row, whatever the chart type and the CSV hold.
C28_LabelsMatchValues ==
  gresp = 200 =>
    /\ Len(labels) = Len(chartValues)
    /\ \A i \in DOMAIN labels : labels[i].row = chartValues[i].row

\* C29: the ml_models row MLStudio inserts has a problem_subtype of the list
\* of its problem_type, in whatever order dataset, problem category and
\* subtype were selected and selected again before Start.
C29_SubtypeOfType ==
  studioModel # NoModel =>
    /\ studioModel.problem_type \in DOMAIN ProblemTypes
    /\ studioModel.problem_subtype \in ProblemTypes[studioModel.problem_type]

\* C30: after any sequence of addRating calls the two matrices hold the same
\* (user, item, rating) triples, users and items are the key sets of the two
\* matrices, and every call leaves its pair with the rating it was given,
\* changing no other pair.
C30_UserTriples ==
  UNION {{<<u, i, userItemMatrix[u][i]>> : i \in DOMAIN userItemMatrix[u]} :
           u \in DOMAIN userItemMatrix}

C30_ItemTriples ==
  UNION {{<<u, i, itemUserMatrix[i][u]>> : u \in DOMAIN itemUserMatrix[i]} :
           i \in DOMAIN itemUserMatrix}

C30_MatricesAgree ==
  /\ [](/\ C30_UserTriples = C30_ItemTriples
        /\ users = DOMAIN userItemMatrix
        /\ items = DOMAIN itemUserMatrix)
  /\ [][\A user \in UserNames, item \in ItemNames, rating \in RatingValues :
          AddRating(user, item, rating) =>
            C30_UserTriples' =
              {t \in C30_UserTriples : ~(t[1] = user /\ t[2] = item)}
                \cup {<<user, item, rating>>}]_vars

\* A pair was rated more than once, and two users and two items are held.
C30_Witness ==
  /\ ratingsAdded > Cardinality(C30_UserTriples)
  /\ Cardinality(users) = 2
  /\ Cardinality(items) = 2
  /\ C30_UserTriples = C30_ItemTriples

====
